---- MODULE Spec2Model ----
(***************************************************************************)
(* Model of the personal-library backend: the item store (books router),   *)
(* the ChromaDB-backed VectorStore, the lazily loaded EmbeddingService,    *)
(* the startup reconciliation of main.py and the RAG search path.          *)
(*                                                                         *)
(* Strings on which the code works character by character (tags, which are *)
(* comma-joined on write, comma-split on read and substring-matched by the *)
(* index filter) are sequences of one-character strings.  Strings the code *)
(* only copies (titles, authors, formats, statuses) are TLA+ strings.      *)
(***************************************************************************)
EXTENDS Integers, Sequences, FiniteSets, TLC

-----------------------------------------------------------------------------
(* Bounds of the model *)

\* number of item ids the item store hands out
MaxBooks == 2
\* number of books of the library a search runs against
MaxLibrary == 4
\* largest n_results a search request asks for
MaxResults == 4
\* number of worker threads racing on first use of a lazy singleton
MaxThreads == 2
\* longest list of tags handed to the tag expansion
MaxTags == 3
\* longest list of categories or of moods in a reply of the generation model
MaxSuggested == 4
\* largest magnitude of a number in the rating column of an imported file
MaxRating == 7
\* most books in the store when the duplicates are looked for
MaxShelf == 4
\* most data rows of an imported file
MaxRows == 2
\* most books in the store when it is recategorized
MaxSelected == 11

-----------------------------------------------------------------------------
(* Generic helpers *)

None == "None"

\* `_model = None` / `_client = None`: no instance yet.  An instance is named
\* by the ordinal (1, 2, ...) of the constructor call that returned it.
NoInstance == 0

Range(s) == {s[i] : i \in 1..Len(s)}

Min(a, b) == IF a <= b THEN a ELSE b

\* Python's s[:n] on a list
Take(s, n) == SubSeq(s, 1, Min(n, Len(s)))

\* The elements of a finite set of integers in increasing order
RECURSIVE SortedSeq(_)
SortedSeq(S) ==
    IF S = {} THEN <<>>
    ELSE LET m == CHOOSE x \in S : \A y \in S : x <= y
         IN <<m>> \o SortedSeq(S \ {m})

\* Python's `sub in s` on strings
IsSubstring(sub, s) ==
    \E i \in 0..(Len(s) - Len(sub)) :
        \A j \in 1..Len(sub) : s[i + j] = sub[j]

\* Python's sep.join(list) with sep = ","
RECURSIVE Join(_)
Join(list) ==
    IF list = <<>> THEN <<>>
    ELSE IF Len(list) = 1 THEN list[1]
    ELSE list[1] \o <<",">> \o Join(Tail(list))

\* Python's s.split(","): one more piece than there are commas
RECURSIVE Split(_)
Split(s) ==
    IF \A i \in 1..Len(s) : s[i] # ","
    THEN <<s>>
    ELSE LET k == CHOOSE i \in 1..Len(s) :
                      s[i] = "," /\ \A j \in 1..(i - 1) : s[j] # ","
         IN <<SubSeq(s, 1, k - 1)>> \o Split(SubSeq(s, k + 1, Len(s)))

-----------------------------------------------------------------------------
(* Tags and texts the model draws from *)

fiction == <<"f", "i", "c", "t", "i", "o", "n">>
non_fiction == <<"n", "o", "n", "-">> \o fiction
novel == <<"n", "o", "v", "e", "l">>
story == <<"s", "t", "o", "r", "y">>
factual == <<"f", "a", "c", "t", "u", "a", "l">>
true_kw == <<"t", "r", "u", "e">>
informative == <<"i", "n", "f", "o">>
cozy == <<"c", "o", "z", "y">>
cosy == <<"c", "o", "s", "y">>
warm == <<"w", "a", "r", "m">>
dark == <<"d", "a", "r", "k">>
gritty == <<"g", "r", "i", "t", "t", "y">>
bleak == <<"b", "l", "e", "a", "k">>
thrilling == <<"t", "h", "r", "i", "l", "l", "i", "n", "g">>
adventurous == <<"a", "d", "v", "e", "n", "t", "u", "r", "o", "u", "s">>
exciting == <<"e", "x", "c", "i", "t", "i", "n", "g">>
tense == <<"t", "e", "n", "s", "e">>
journey == <<"j", "o", "u", "r", "n", "e", "y">>

\* The `expansions` dictionaries of EmbeddingService._expand_categories and
\* EmbeddingService._expand_moods (the entries of the tags the model uses);
\* <<>> stands for a tag that is not a key
CategoryExpansions(cat) ==
    IF cat = fiction THEN <<fiction, novel, story>>
    ELSE IF cat = non_fiction THEN <<non_fiction, factual, true_kw, informative>>
    ELSE <<>>

MoodExpansions(mood) ==
    IF mood = cozy THEN <<cozy, cosy, warm>>
    ELSE IF mood = dark THEN <<dark, gritty, bleak>>
    ELSE IF mood = thrilling THEN <<thrilling, exciting, tense>>
    ELSE IF mood = adventurous THEN <<adventurous, exciting, journey>>
    ELSE <<>>

\* result.extend([kw for kw in expansions[tag] if kw not in result]); the
\* comprehension tests each keyword against `result` as it is before the extend
ExtendNew(result, kws) ==
    result \o SelectSeq(kws, LAMBDA kw : kw \notin Range(result))

RECURSIVE ExpandCategoriesLoop(_, _)
ExpandCategoriesLoop(result, categories) ==
    IF categories = <<>> THEN result
    ELSE ExpandCategoriesLoop(ExtendNew(result, CategoryExpansions(Head(categories))),
                              Tail(categories))

RECURSIVE ExpandMoodsLoop(_, _)
ExpandMoodsLoop(result, moods) ==
    IF moods = <<>> THEN result
    ELSE ExpandMoodsLoop(ExtendNew(result, MoodExpansions(Head(moods))), Tail(moods))

_expand_categories(categories) == ExpandCategoriesLoop(categories, categories)

_expand_moods(moods) == ExpandMoodsLoop(moods, moods)

\* EmbeddingService.create_book_text: the parts joined with " | ".  A part the
\* code leaves out (empty description, no categories, no moods) is the empty
\* value of its field.
create_book_text(title, author, description, categories, moods) ==
    [Title |-> title,
     Author |-> author,
     Description |-> description,
     Categories |-> IF categories # <<>> THEN _expand_categories(categories) ELSE <<>>,
     Moods |-> IF moods # <<>> THEN _expand_moods(moods) ELSE <<>>]

-----------------------------------------------------------------------------
(* The embedding model and the cosine space of the index *)

\* SentenceTransformer.encode: a fixed function of the text.  Vectors are the
\* four unit vectors at 0, 90, 180 and 270 degrees, named 0..3.
TitleCode(title) ==
    CASE title = "Sapiens" -> 0
      [] title = "Emma" -> 1
      [] OTHER -> 2

encode(text) ==
    IF "Query" \in DOMAIN text
    THEN TitleCode(text.Query)
    ELSE (TitleCode(text.Title) + Len(text.Categories) + Len(text.Moods)) % 4

\* ChromaDB's "hnsw:space": "cosine": distance = 1 - cos(angle), in [0, 2]
CosineDistance(u, v) ==
    LET d == (u - v + 4) % 4
    IN IF d = 0 THEN 0 ELSE IF d = 2 THEN 2 ELSE 1

-----------------------------------------------------------------------------
(* Inputs of the requests *)

\* BookCreate bodies of POST /api/books
BookCreates ==
    { [title |-> "Sapiens", author |-> "Harari", description |-> "",
       format |-> "kindle", reading_status |-> "unread",
       categories |-> <<non_fiction>>, moods |-> <<dark>>],
      [title |-> "Emma", author |-> "Austen", description |-> "",
       format |-> "physical", reading_status |-> "completed",
       categories |-> <<>>, moods |-> <<>>] }

\* What CategorizationService.categorize_book returns: a suggestion, or the
\* empty suggestion after any failure
Suggestions ==
    { [categories |-> <<fiction>>, moods |-> <<cozy>>],
      [categories |-> <<>>, moods |-> <<>>] }

\* BookUpdate bodies of PATCH /api/books/{id} (model_dump(exclude_unset=True)):
\* one that replaces every field, one that leaves the tags unset
BookUpdates ==
    { [title |-> "Emma", author |-> "Austen", format |-> "physical",
       reading_status |-> "completed",
       categories |-> <<fiction>>, moods |-> <<cozy>>],
      [reading_status |-> "completed"] }

\* Search requests
Queries == {"Sapiens", "Emma"}
\* an absent (None or empty) tag filter is the empty string
NoTag == <<>>
CategoryFilters == {NoTag, fiction}
MoodFilters == {NoTag, cozy}
FormatFilters == {None, "kindle"}
StatusFilters == {None, "completed"}

\* Outcomes of the calls a request makes on the embedding model and on the
\* index backend.  model: "load" = the SentenceTransformer constructor raises,
\* "encode" = model.encode raises.  init: the ChromaDB client can be created.
\* del / add / query / get: the collection call succeeds.  dup: what
\* collection.add does with an id it already holds (it never overwrites).
Faults ==
    [model : {"ok", "load", "encode"}, init : BOOLEAN, del : BOOLEAN,
     add : BOOLEAN, query : BOOLEAN, get : BOOLEAN, dup : {"ignore", "raise"}]

NoFault ==
    [model |-> "ok", init |-> TRUE, del |-> TRUE, add |-> TRUE, query |-> TRUE,
     get |-> TRUE, dup |-> "ignore"]

-----------------------------------------------------------------------------
(* State *)

VARIABLES
    DISABLE_EMBEDDINGS,   \* os.environ["DISABLE_EMBEDDINGS"]
    books,                \* the books table with its categories and moods: id -> row
    next_id,              \* the next primary key of the books table
    _model,               \* EmbeddingService._model
    _client,              \* VectorStore._client
    _collection,          \* VectorStore._collection (NoInstance or the collection handle)
    chroma,               \* the persisted "books" collection: id -> record
    model_ctor_calls,     \* SentenceTransformer(...) calls of this process that returned a model
    client_ctor_calls,    \* chromadb.PersistentClient(...) calls of this process that returned a client
    last,                 \* what the last completed operation returned
    pc,                   \* worker threads in their first use of the singletons: position
    got                   \* worker threads: the instances each was handed, and the one it built

vars ==
    <<DISABLE_EMBEDDINGS, books, next_id, _model, _client, _collection, chroma,
      model_ctor_calls, client_ctor_calls, last, pc, got>>

\* The lazily created singletons, as one value the service operators thread through
Services ==
    [model |-> _model, client |-> _client, collection |-> _collection,
     chroma |-> chroma, model_ctor_calls |-> model_ctor_calls,
     client_ctor_calls |-> client_ctor_calls]

-----------------------------------------------------------------------------
(* EmbeddingService *)

\* A service call returns: raised (an exception left the call), sv (the
\* singletons and the collection after the call), value (what it returned).
Raise(sv) == [raised |-> TRUE, sv |-> sv, value |-> None]

Return(sv, value) == [raised |-> FALSE, sv |-> sv, value |-> value]

\* EmbeddingService.model (property)
EmbeddingService_model(sv, fx) ==
    IF sv.model # NoInstance THEN Return(sv, sv.model)
    ELSE IF DISABLE_EMBEDDINGS = "true" THEN Raise(sv)
    ELSE IF fx.model = "load" THEN Raise(sv)
    ELSE LET loaded == [sv EXCEPT !.model_ctor_calls = @ + 1]
         IN Return([loaded EXCEPT !.model = loaded.model_ctor_calls],
                   loaded.model_ctor_calls)

\* EmbeddingService.embed_text
embed_text(sv, text, fx) ==
    LET m == EmbeddingService_model(sv, fx)
    IN IF m.raised THEN m
       ELSE IF fx.model = "encode" THEN Raise(m.sv)
       ELSE Return(m.sv, encode(text))

-----------------------------------------------------------------------------
(* VectorStore *)

\* VectorStore._ensure_initialized
_ensure_initialized(sv, fx) ==
    IF sv.client # NoInstance THEN Return(sv, None)
    ELSE IF DISABLE_EMBEDDINGS = "true" THEN Raise(sv)
    ELSE IF ~fx.init THEN Raise(sv)
    ELSE LET created == [sv EXCEPT !.client_ctor_calls = @ + 1]
         IN Return([created EXCEPT !.client = created.client_ctor_calls,
                                    !.collection = created.client_ctor_calls],
                   None)

\* VectorStore.collection (property)
VectorStore_collection(sv, fx) == _ensure_initialized(sv, fx)

\* The metadata dictionary add_book stores with the record
Metadata(book, categories, moods) ==
    [title |-> book.title,
     author |-> book.author,
     format |-> book.format,
     reading_status |-> book.reading_status,
     categories |-> Join(categories),
     moods |-> Join(moods)]

\* The record add_book builds for a book
IndexRecord(book, categories, moods) ==
    LET text == create_book_text(book.title, book.author, book.description,
                                 categories, moods)
    IN [embedding |-> encode(text),
        metadata |-> Metadata(book, categories, moods),
        document |-> text]

\* VectorStore.add_book; the method has no return statement
add_book(sv, id, book, categories, moods, fx) ==
    LET text == create_book_text(book.title, book.author, book.description,
                                 categories, moods)
        e == embed_text(sv, text, fx)
        c == VectorStore_collection(e.sv, fx)
    IN IF e.raised THEN e
       ELSE IF c.raised THEN c
       ELSE IF ~fx.add THEN Raise(c.sv)
       ELSE IF id \in DOMAIN c.sv.chroma
            THEN (IF fx.dup = "raise" THEN Raise(c.sv) ELSE Return(c.sv, None))
       ELSE Return([c.sv EXCEPT !.chroma =
                        [i \in DOMAIN c.sv.chroma \cup {id} |->
                            IF i = id
                            THEN [embedding |-> e.value,
                                  metadata |-> Metadata(book, categories, moods),
                                  document |-> text]
                            ELSE c.sv.chroma[i]]],
                   None)

\* VectorStore.delete_book: every exception is swallowed
VectorStore_delete_book(sv, id, fx) ==
    LET c == VectorStore_collection(sv, fx)
    IN IF c.raised THEN Return(c.sv, None)
       ELSE IF ~fx.del THEN Return(c.sv, None)
       ELSE Return([c.sv EXCEPT !.chroma =
                        [i \in DOMAIN c.sv.chroma \ {id} |-> c.sv.chroma[i]]],
                   None)

\* VectorStore.update_book: delete, then add again
VectorStore_update_book(sv, id, book, categories, moods, fx) ==
    LET d == VectorStore_delete_book(sv, id, fx)
    IN add_book(d.sv, id, book, categories, moods, fx)

\* VectorStore.get_all_book_ids
get_all_book_ids(sv, fx) ==
    LET c == VectorStore_collection(sv, fx)
    IN IF c.raised THEN c
       ELSE IF ~fx.get THEN Raise(c.sv)
       ELSE Return(c.sv, DOMAIN c.sv.chroma)

\* The `where` filter VectorStore.search builds, applied to one record's
\* metadata: {"categories": {"$contains": category}} and
\* {"moods": {"$contains": mood}} test the comma-joined string for the
\* substring; {"format": format} and {"reading_status": reading_status} test
\* equality; several conditions are joined by "$and"
Where(metadata, category, mood, format, reading_status) ==
    /\ category # NoTag => IsSubstring(category, metadata.categories)
    /\ mood # NoTag => IsSubstring(mood, metadata.moods)
    /\ format # None => metadata.format = format
    /\ reading_status # None => metadata.reading_status = reading_status

\* The keyword arguments VectorStore.search passes to collection.query:
\* n_results as it was given, and in `where` one condition for each filter
\* that is set (named here by the metadata key it tests)
QueryArguments(n_results, category, mood, format, reading_status) ==
    [n_results |-> n_results,
     where |-> {key \in {"categories", "moods", "format", "reading_status"} :
                   \/ key = "categories" /\ category # NoTag
                   \/ key = "moods" /\ mood # NoTag
                   \/ key = "format" /\ format # None
                   \/ key = "reading_status" /\ reading_status # None}]

\* A collection.query that returns the matching records in the order of their
\* ids, whatever their distance
Nearest_by_id(ids, records, q) == SortedSeq(ids)

\* collection.query orders the matching records by increasing distance (ties:
\* by id) and returns the first n_results of them
RECURSIVE Nearest(_, _, _)
Nearest(ids, records, q) ==
    IF ids = {} THEN <<>>
    ELSE LET best == CHOOSE i \in ids : \A j \in ids :
                 \/ CosineDistance(q, records[i].embedding)
                        < CosineDistance(q, records[j].embedding)
                 \/ /\ CosineDistance(q, records[i].embedding)
                        = CosineDistance(q, records[j].embedding)
                    /\ i <= j
         IN <<best>> \o Nearest(ids \ {best}, records, q)

\* One entry of the `formatted` list of VectorStore.search
Formatted(id, record, distance) ==
    [id |-> id,
     title |-> record.metadata.title,
     author |-> record.metadata.author,
     format |-> record.metadata.format,
     reading_status |-> record.metadata.reading_status,
     categories |-> IF record.metadata.categories # <<>>
                    THEN Split(record.metadata.categories) ELSE <<>>,
     moods |-> IF record.metadata.moods # <<>>
               THEN Split(record.metadata.moods) ELSE <<>>,
     similarity |-> 1 - distance,
     document |-> record.document]

\* The list VectorStore.search returns when nothing raises
SearchResults(records, q, n_results, category, mood, format, reading_status) ==
    LET hits == {i \in DOMAIN records :
                    Where(records[i].metadata, category, mood, format, reading_status)}
        ranked == Take(Nearest(hits, records, q), n_results)
    IN [k \in 1..Len(ranked) |->
           Formatted(ranked[k], records[ranked[k]],
                     CosineDistance(q, records[ranked[k]].embedding))]

\* VectorStore.search
VectorStore_search(sv, query, n_results, category, mood, format, reading_status, fx) ==
    LET e == embed_text(sv, [Query |-> query], fx)
        c == VectorStore_collection(e.sv, fx)
    IN IF e.raised THEN e
       ELSE IF c.raised THEN c
       ELSE IF ~fx.query THEN Raise(c.sv)
       ELSE Return(c.sv, SearchResults(c.sv.chroma, e.value, n_results,
                                       category, mood, format, reading_status))

\* The loop of sync_from_database without its try/except: the first add_book
\* that raises ends the run
RECURSIVE SyncLoop_abort(_, _, _, _, _)
SyncLoop_abort(sv, list, existing_ids, added_count, fxs) ==
    IF list = <<>> THEN Return(sv, added_count)
    ELSE LET book == Head(list)
         IN IF book.id \notin existing_ids
            THEN LET a == add_book(sv, book.id, book, book.categories, book.moods,
                                   fxs[book.id])
                 IN IF a.raised THEN Return(a.sv, added_count)
                    ELSE SyncLoop_abort(a.sv, Tail(list), existing_ids,
                                        added_count + 1, fxs)
            ELSE SyncLoop_abort(sv, Tail(list), existing_ids, added_count, fxs)

\* The loop of VectorStore.sync_from_database over `books`, a list of rows
\* with their ids; fxs gives the outcomes of the calls made for each id
RECURSIVE SyncLoop(_, _, _, _, _)
SyncLoop(sv, list, existing_ids, added_count, fxs) ==
    IF list = <<>> THEN Return(sv, added_count)
    ELSE LET book == Head(list)
         IN IF book.id \notin existing_ids
            THEN LET a == add_book(sv, book.id, book, book.categories, book.moods,
                                   fxs[book.id])
                 IN SyncLoop(a.sv, Tail(list), existing_ids,
                             IF a.raised THEN added_count ELSE added_count + 1, fxs)
            ELSE SyncLoop(sv, Tail(list), existing_ids, added_count, fxs)

\* sync_from_database without the `book.id not in existing_ids` test
sync_from_database_no_skip(sv, list, fx, fxs) ==
    LET g == get_all_book_ids(sv, fx)
    IN IF g.raised THEN g
       ELSE SyncLoop(g.sv, list, {}, 0, fxs)

\* sync_from_database that empties the collection and indexes every book anew
sync_from_database_rebuild(sv, list, fx, fxs) ==
    LET g == get_all_book_ids(sv, fx)
    IN IF g.raised THEN g
       ELSE SyncLoop([g.sv EXCEPT !.chroma = <<>>], list, {}, 0, fxs)

\* VectorStore.sync_from_database
sync_from_database(sv, list, fx, fxs) ==
    LET g == get_all_book_ids(sv, fx)
    IN IF g.raised THEN g
       ELSE SyncLoop(g.sv, list, g.value, 0, fxs)

-----------------------------------------------------------------------------
(* RAGService and the search endpoint *)

\* books[:3] in the fallback of RAGService._generate_response
FallbackTitles == 3

\* RAGService._build_context: one numbered block per book, in the order given
_build_context(results) ==
    [k \in 1..Len(results) |->
        [n |-> k, title |-> results[k].title, author |-> results[k].author,
         format |-> results[k].format, reading_status |-> results[k].reading_status,
         categories |-> results[k].categories, moods |-> results[k].moods]]

\* The fixed reply of RAGService.search when nothing was retrieved
NoMatches == [kind |-> "no_matches", titles |-> <<>>, context |-> <<>>]

\* _generate_response whose fallback names the first two titles only
_generate_response_top2(query, context, results, gen) ==
    IF gen = "ok"
    THEN [kind |-> "generated", titles |-> <<>>, context |-> context]
    ELSE [kind |-> "fallback",
          titles |-> [k \in 1..Min(2, Len(results)) |-> results[k].title],
          context |-> <<>>]

\* RAGService._generate_response; gen is the outcome of the Groq call.  The
\* generated text is whatever the model made of the context.
_generate_response(query, context, results, gen) ==
    IF gen = "ok"
    THEN [kind |-> "generated", titles |-> <<>>, context |-> context]
    ELSE [kind |-> "fallback",
          titles |-> [k \in 1..Min(FallbackTitles, Len(results)) |-> results[k].title],
          context |-> <<>>]

\* RAGService.search that generates before it looks whether anything was found
RAGService_search_eager(sv, query, n_results, category, mood, format, reading_status, fx, gen) ==
    LET r == VectorStore_search(sv, query, n_results, category, mood, format,
                                reading_status, fx)
    IN IF r.raised
       THEN [raised |-> TRUE, sv |-> r.sv, value |-> None, gen_calls |-> 0]
       ELSE IF r.value = <<>>
       THEN [raised |-> FALSE, sv |-> r.sv, gen_calls |-> 1,
             value |-> [response |-> NoMatches, books |-> <<>>]]
       ELSE [raised |-> FALSE, sv |-> r.sv, gen_calls |-> 1,
             value |-> [response |-> _generate_response(query, _build_context(r.value),
                                                        r.value, gen),
                        books |-> r.value]]

\* RAGService.search; gen_calls counts the calls of the generation model
RAGService_search(sv, query, n_results, category, mood, format, reading_status, fx, gen) ==
    LET r == VectorStore_search(sv, query, n_results, category, mood, format,
                                reading_status, fx)
    IN IF r.raised
       THEN [raised |-> TRUE, sv |-> r.sv, value |-> None, gen_calls |-> 0]
       ELSE IF r.value = <<>>
       THEN [raised |-> FALSE, sv |-> r.sv, gen_calls |-> 0,
             value |-> [response |-> NoMatches, books |-> <<>>]]
       ELSE [raised |-> FALSE, sv |-> r.sv, gen_calls |-> 1,
             value |-> [response |-> _generate_response(query, _build_context(r.value),
                                                        r.value, gen),
                        books |-> r.value]]

\* SearchBookResult(...) of the endpoint: the result without its document
SearchBookResult(book) ==
    [id |-> book.id, title |-> book.title, author |-> book.author,
     format |-> book.format, reading_status |-> book.reading_status,
     categories |-> book.categories, moods |-> book.moods,
     similarity |-> book.similarity]

\* search_books (POST /api/search/query)
search_books(sv, query, n_results, category, mood, format, reading_status, fx, gen) ==
    LET r == RAGService_search(sv, query, n_results, category, mood, format,
                               reading_status, fx, gen)
    IN IF r.raised THEN r
       ELSE [r EXCEPT !.value =
                [response |-> r.value.response,
                 books |-> [k \in 1..Len(r.value.books) |->
                               SearchBookResult(r.value.books[k])]]]

-----------------------------------------------------------------------------
(* The item store *)

\* CreateTags that takes the suggestions whenever auto_categorize is set
CreateTags_always(book_data, auto_categorize, suggestions) ==
    IF auto_categorize
    THEN [categories |-> suggestions.categories, moods |-> suggestions.moods]
    ELSE [categories |-> book_data.categories, moods |-> book_data.moods]

\* The tags create_book stores: those of the request, or the suggestions of
\* the categorization when auto_categorize is set and the request has no tag
\* (a categorization that raises leaves the empty lists of the request)
CreateTags(book_data, auto_categorize, suggestions) ==
    IF auto_categorize /\ book_data.categories = <<>> /\ book_data.moods = <<>>
    THEN [categories |-> suggestions.categories, moods |-> suggestions.moods]
    ELSE [categories |-> book_data.categories, moods |-> book_data.moods]

\* The Book row of a BookCreate, with the tags stored for it
NewBook(book_data, categories, moods, embedding) ==
    [title |-> book_data.title, author |-> book_data.author,
     description |-> book_data.description, format |-> book_data.format,
     reading_status |-> book_data.reading_status,
     categories |-> categories, moods |-> moods, embedding |-> embedding]

\* setattr(book, key, value) for every key of update_data, and the
\* replacement of the categories and moods that the request provides
Patched(book, update_data) ==
    [f \in DOMAIN book |-> IF f \in DOMAIN update_data THEN update_data[f] ELSE book[f]]

\* The rows of the books table as the list of Book objects a query returns
AllBooks ==
    LET ids == SortedSeq(DOMAIN books)
    IN [k \in 1..Len(ids) |->
           [id |-> ids[k], title |-> books[ids[k]].title, author |-> books[ids[k]].author,
            description |-> books[ids[k]].description, format |-> books[ids[k]].format,
            reading_status |-> books[ids[k]].reading_status,
            categories |-> books[ids[k]].categories, moods |-> books[ids[k]].moods]]

\* The instances a freshly opened Session iterates over: none.  main.py hands
\* the Session itself to sync_from_database as its list of books.
SessionInstances == <<>>

\* create_book whose indexing failure leaves the request: the row of the first
\* commit stays, without its tags
create_book_untagged(sv, id, book_data, auto_categorize, suggestions, fx) ==
    LET tags == CreateTags(book_data, auto_categorize, suggestions)
        a == add_book(sv, id, book_data, tags.categories, tags.moods, fx)
    IN IF a.raised
       THEN [raised |-> TRUE, sv |-> a.sv, value |-> NewBook(book_data, <<>>, <<>>, None)]
       ELSE Return(a.sv, NewBook(book_data, tags.categories, tags.moods, a.value))

\* create_book (POST /api/books) for the id the first commit gave the row;
\* value is the row as the last commit leaves it.  Every exception of the
\* embedding step is caught and logged.
create_book(sv, id, book_data, auto_categorize, suggestions, fx) ==
    LET tags == CreateTags(book_data, auto_categorize, suggestions)
        a == add_book(sv, id, book_data, tags.categories, tags.moods, fx)
    IN Return(a.sv, NewBook(book_data, tags.categories, tags.moods,
                            IF a.raised THEN None ELSE a.value))

\* update_book (PATCH /api/books/{book_id}) of the existing row `row`; value
\* is the row as the commit leaves it.  Every exception of the embedding step
\* is caught and logged.
update_book(sv, book_id, row, update_data, fx) ==
    LET book == Patched(row, update_data)
        u == VectorStore_update_book(sv, book_id, book, book.categories, book.moods, fx)
    IN Return(u.sv, [book EXCEPT !.embedding =
                        IF u.raised THEN book.embedding ELSE u.value])

SetServices(sv) ==
    /\ _model' = sv.model
    /\ _client' = sv.client
    /\ _collection' = sv.collection
    /\ chroma' = sv.chroma
    /\ model_ctor_calls' = sv.model_ctor_calls
    /\ client_ctor_calls' = sv.client_ctor_calls

-----------------------------------------------------------------------------
(* The outcomes that matter to each request.  A call the request never      *)
(* reaches, or whose outcome cannot show, is taken to succeed: add_book      *)
(* stops at the first call that raises, and collection.add meets an id it    *)
(* already holds only after a delete that failed.                            *)

CreateFaults ==
    {fx \in Faults : /\ fx.del /\ fx.query /\ fx.get /\ fx.dup = "ignore"
                     /\ (fx.model # "ok" => fx.init /\ fx.add)
                     /\ (~fx.init => fx.add)}

UpdateFaults ==
    {fx \in Faults : /\ fx.query /\ fx.get
                     /\ (fx.model # "ok" => fx.add)
                     /\ (~fx.init => fx.del /\ fx.add)
                     /\ (fx.del \/ ~fx.add \/ fx.model # "ok" => fx.dup = "ignore")}

DeleteFaults ==
    {fx \in Faults : /\ fx.model = "ok" /\ fx.add /\ fx.query /\ fx.get
                     /\ fx.dup = "ignore"
                     /\ (~fx.init => fx.del)}

SearchFaults ==
    {fx \in Faults : /\ fx.del /\ fx.add /\ fx.get /\ fx.dup = "ignore"
                     /\ (fx.model # "ok" => fx.init /\ fx.query)
                     /\ (~fx.init => fx.query)}

SyncFaults ==
    {fx \in Faults : /\ fx.model = "ok" /\ fx.del /\ fx.add /\ fx.query
                     /\ fx.dup = "ignore"
                     /\ (~fx.init => fx.get)}

ItemFaults ==
    {fx \in Faults : /\ fx.init /\ fx.del /\ fx.query /\ fx.get /\ fx.dup = "ignore"
                     /\ (fx.model # "ok" => fx.add)}

\* No call of a run of sync_from_database fails
Clean(fx, fxs) ==
    /\ DISABLE_EMBEDDINGS # "true"
    /\ fx = NoFault
    /\ \A i \in DOMAIN fxs : fxs[i] = NoFault

-----------------------------------------------------------------------------
(* Requests and operations, each taken as a whole *)

Init ==
    /\ DISABLE_EMBEDDINGS \in {"true", "false"}
    /\ books = <<>>
    /\ next_id = 1
    /\ _model = NoInstance
    /\ _client = NoInstance
    /\ _collection = NoInstance
    /\ chroma = <<>>
    /\ model_ctor_calls = 0
    /\ client_ctor_calls = 0
    /\ last = [op |-> "none"]
    /\ pc = [t \in 1..MaxThreads |-> "idle"]
    /\ got = [t \in 1..MaxThreads |->
                 [model |-> NoInstance, collection |-> NoInstance, new |-> NoInstance]]

\* create_book (POST /api/books)
CreateBook ==
    \E book_data \in BookCreates, auto_categorize \in BOOLEAN,
       suggestions \in Suggestions, fx \in CreateFaults :
        /\ next_id <= MaxBooks
        /\ \E r \in {create_book(Services, next_id, book_data, auto_categorize,
                                 suggestions, fx)} :
              /\ books' = [i \in DOMAIN books \cup {next_id} |->
                              IF i = next_id THEN r.value ELSE books[i]]
              /\ SetServices(r.sv)
              /\ last' = [op |-> "create_book", raised |-> r.raised]
        /\ next_id' = next_id + 1
        /\ UNCHANGED <<DISABLE_EMBEDDINGS, pc, got>>

\* update_book (PATCH /api/books/{book_id}) of an existing book
UpdateBook ==
    \E book_id \in DOMAIN books, update_data \in BookUpdates, fx \in UpdateFaults :
        \E r \in {update_book(Services, book_id, books[book_id], update_data, fx)} :
           /\ books' = [books EXCEPT ![book_id] = r.value]
           /\ SetServices(r.sv)
           /\ last' = [op |-> "update_book", raised |-> r.raised]
           /\ UNCHANGED <<DISABLE_EMBEDDINGS, next_id, pc, got>>

\* delete_book (DELETE /api/books/{book_id}) of an existing book
DeleteBook ==
    \E book_id \in DOMAIN books, fx \in DeleteFaults :
        \E d \in {VectorStore_delete_book(Services, book_id, fx)} :
           /\ books' = [i \in DOMAIN books \ {book_id} |-> books[i]]
           /\ SetServices(d.sv)
           /\ last' = [op |-> "delete_book", raised |-> FALSE]
           /\ UNCHANGED <<DISABLE_EMBEDDINGS, next_id, pc, got>>

\* VectorStore.sync_from_database run over all the books of the item store
SyncFromDatabase ==
    \E fx \in SyncFaults, item_fxs \in [DOMAIN books \ DOMAIN chroma -> ItemFaults] :
        \E fxs \in {[i \in DOMAIN books |->
                        IF i \in DOMAIN item_fxs THEN item_fxs[i] ELSE NoFault]} :
        \E r \in {sync_from_database(Services, AllBooks, fx, fxs)} :
           /\ SetServices(r.sv)
           /\ last' = [op |-> "sync_from_database", raised |-> r.raised,
                       value |-> r.value,
                       missing |-> DOMAIN books \ DOMAIN chroma,
                       added |-> DOMAIN r.sv.chroma \ DOMAIN chroma,
                       clean |-> Clean(fx, fxs),
                       again |-> /\ last.op = "sync_from_database"
                                 /\ last.clean,
                       before |-> IF last.op = "sync_from_database" /\ last.clean
                                  THEN last.value ELSE 0]
           /\ UNCHANGED <<DISABLE_EMBEDDINGS, books, next_id, pc, got>>

\* sync_vector_store of main.py; `rows` is the books table.  Every exception
\* of the body is caught and logged; the function returns nothing.
sync_vector_store(sv, rows, fx) ==
    IF DISABLE_EMBEDDINGS = "true" THEN Return(sv, None)
    ELSE LET total_books == Cardinality(DOMAIN rows)
             books_with_embeddings ==
                 Cardinality({i \in DOMAIN rows : rows[i].embedding # None})
         IN IF books_with_embeddings < total_books
            THEN Return(sync_from_database(sv, SessionInstances, fx, <<>>).sv, None)
            ELSE Return(sv, None)

\* A start of the process: the singletons are unset, the persisted collection
\* is as it was left or (on a redeploy) wiped, and lifespan runs
\* sync_vector_store before any request is served
Startup ==
    \E wiped \in BOOLEAN, fx \in SyncFaults :
        \E fresh \in {[model |-> NoInstance, client |-> NoInstance,
                        collection |-> NoInstance,
                        chroma |-> IF wiped THEN <<>> ELSE chroma,
                        model_ctor_calls |-> 0, client_ctor_calls |-> 0]} :
        \E r \in {sync_vector_store(fresh, books, fx)} :
           /\ SetServices(r.sv)
           /\ last' = [op |-> "sync_vector_store", raised |-> r.raised,
                       value |-> r.value, reachable |-> fx = NoFault]
           /\ UNCHANGED <<DISABLE_EMBEDDINGS, books, next_id, pc, got>>

\* The outcomes of one search request: of the calls of the retrieval and, when
\* the retrieval gets as far as the generation, of the Groq call
SearchOutcomes ==
    {o \in [fx : SearchFaults, gen : {"ok", "raise"}] : o.fx # NoFault => o.gen = "ok"}

SearchRequests ==
    [query : Queries, n_results : 1..MaxResults, category : CategoryFilters,
     mood : MoodFilters, format : FormatFilters, reading_status : StatusFilters]

\* search_books applied to a request
Respond(sv, rq, o) ==
    search_books(sv, rq.query, rq.n_results, rq.category, rq.mood, rq.format,
                 rq.reading_status, o.fx, o.gen)

\* search_books (POST /api/search/query); `last` keeps the shape of the reply
SearchBooks ==
    \E rq \in SearchRequests, o \in SearchOutcomes :
        \E r \in {Respond(Services, rq, o)} :
           /\ SetServices(r.sv)
           /\ last' = [op |-> "search_books", raised |-> r.raised,
                       gen_calls |-> r.gen_calls,
                       kind |-> IF r.raised THEN None ELSE r.value.response.kind,
                       n |-> IF r.raised THEN 0 ELSE Len(r.value.books)]
           /\ UNCHANGED <<DISABLE_EMBEDDINGS, books, next_id, pc, got>>

Next ==
    \/ CreateBook
    \/ UpdateBook
    \/ DeleteBook
    \/ SyncFromDatabase
    \/ Startup

Spec == Init /\ [][Next]_vars

\* The rows create_book can store
LibraryRows ==
    {NewBook(book_data,
             CreateTags(book_data, auto_categorize, suggestions).categories,
             CreateTags(book_data, auto_categorize, suggestions).moods, None) :
        book_data \in BookCreates, auto_categorize \in BOOLEAN,
        suggestions \in Suggestions}

\* A library of up to MaxLibrary books, each created by a create_book that
\* indexed it, in a process that has not yet loaded its singletons
InitSearch ==
    /\ DISABLE_EMBEDDINGS \in {"true", "false"}
    /\ next_id \in 1..(MaxLibrary + 1)
    /\ books \in [1..(next_id - 1) -> LibraryRows]
    /\ chroma = [i \in DOMAIN books |->
                    IndexRecord(books[i], books[i].categories, books[i].moods)]
    /\ _model = NoInstance
    /\ _client = NoInstance
    /\ _collection = NoInstance
    /\ model_ctor_calls = 0
    /\ client_ctor_calls = 0
    /\ last = [op |-> "none"]
    /\ pc = [t \in 1..MaxThreads |-> "idle"]
    /\ got = [t \in 1..MaxThreads |->
                 [model |-> NoInstance, collection |-> NoInstance, new |-> NoInstance]]

NextSearch == SearchBooks

SpecSearch == InitSearch /\ [][NextSearch]_vars

-----------------------------------------------------------------------------
(* First use of the singletons by concurrent worker threads.  The handlers   *)
(* declared with `def` (update_book, delete_book) run on the threads of the   *)
(* server's pool.  A thread serving update_book first reaches                 *)
(* VectorStore._ensure_initialized (through delete_book's self.collection),   *)
(* then EmbeddingService.model (through add_book's embed_text).  Neither      *)
(* holds a lock, so the threads interleave between any two steps.             *)

Threads == 1..MaxThreads

Goto(t, where) == pc' = [pc EXCEPT ![t] = where]

\* A request is handed to thread t
Enter(t) ==
    /\ pc[t] = "idle"
    /\ Goto(t, "client_check")
    /\ UNCHANGED <<DISABLE_EMBEDDINGS, books, next_id, _model, _client, _collection,
                   chroma, model_ctor_calls, client_ctor_calls, last, got>>

\* _ensure_initialized: `if VectorStore._client is None:` and the check of
\* DISABLE_EMBEDDINGS, whose RuntimeError delete_book swallows
ClientCheck(t) ==
    /\ pc[t] = "client_check"
    /\ Goto(t, IF _client # NoInstance THEN "collection_read"
               ELSE IF DISABLE_EMBEDDINGS = "true" THEN "model_check"
               ELSE "client_new")
    /\ UNCHANGED <<DISABLE_EMBEDDINGS, books, next_id, _model, _client, _collection,
                   chroma, model_ctor_calls, client_ctor_calls, last, got>>

\* _ensure_initialized: chromadb.PersistentClient(...) returns a client
ClientNew(t) ==
    /\ pc[t] = "client_new"
    /\ client_ctor_calls' = client_ctor_calls + 1
    /\ got' = [got EXCEPT ![t].new = client_ctor_calls + 1]
    /\ Goto(t, "client_store")
    /\ UNCHANGED <<DISABLE_EMBEDDINGS, books, next_id, _model, _client, _collection,
                   chroma, model_ctor_calls, last>>

\* _ensure_initialized: `VectorStore._client = ...`
ClientStore(t) ==
    /\ pc[t] = "client_store"
    /\ _client' = got[t].new
    /\ Goto(t, "collection_store")
    /\ UNCHANGED <<DISABLE_EMBEDDINGS, books, next_id, _model, _collection,
                   chroma, model_ctor_calls, client_ctor_calls, last, got>>

\* _ensure_initialized:
\* `VectorStore._collection = VectorStore._client.get_or_create_collection(...)`;
\* the collection handle is named by the client it belongs to
CollectionStore(t) ==
    /\ pc[t] = "collection_store"
    /\ _collection' = _client
    /\ Goto(t, "collection_read")
    /\ UNCHANGED <<DISABLE_EMBEDDINGS, books, next_id, _model, _client,
                   chroma, model_ctor_calls, client_ctor_calls, last, got>>

\* collection: `return VectorStore._collection`
CollectionRead(t) ==
    /\ pc[t] = "collection_read"
    /\ got' = [got EXCEPT ![t].collection = _collection]
    /\ Goto(t, "model_check")
    /\ UNCHANGED <<DISABLE_EMBEDDINGS, books, next_id, _model, _client, _collection,
                   chroma, model_ctor_calls, client_ctor_calls, last>>

\* model: `if EmbeddingService._model is None:` and the check of
\* DISABLE_EMBEDDINGS, whose RuntimeError ends the embedding step
ModelCheck(t) ==
    /\ pc[t] = "model_check"
    /\ Goto(t, IF _model # NoInstance THEN "model_read"
               ELSE IF DISABLE_EMBEDDINGS = "true" THEN "done"
               ELSE "model_new")
    /\ UNCHANGED <<DISABLE_EMBEDDINGS, books, next_id, _model, _client, _collection,
                   chroma, model_ctor_calls, client_ctor_calls, last, got>>

\* model: SentenceTransformer(self.MODEL_NAME) returns a model
ModelNew(t) ==
    /\ pc[t] = "model_new"
    /\ model_ctor_calls' = model_ctor_calls + 1
    /\ got' = [got EXCEPT ![t].new = model_ctor_calls + 1]
    /\ Goto(t, "model_store")
    /\ UNCHANGED <<DISABLE_EMBEDDINGS, books, next_id, _model, _client, _collection,
                   chroma, client_ctor_calls, last>>

\* model: `EmbeddingService._model = ...`
ModelStore(t) ==
    /\ pc[t] = "model_store"
    /\ _model' = got[t].new
    /\ Goto(t, "model_read")
    /\ UNCHANGED <<DISABLE_EMBEDDINGS, books, next_id, _client, _collection,
                   chroma, model_ctor_calls, client_ctor_calls, last, got>>

\* model: `return EmbeddingService._model`
ModelRead(t) ==
    /\ pc[t] = "model_read"
    /\ got' = [got EXCEPT ![t].model = _model]
    /\ Goto(t, "done")
    /\ UNCHANGED <<DISABLE_EMBEDDINGS, books, next_id, _model, _client, _collection,
                   chroma, model_ctor_calls, client_ctor_calls, last>>

NextInit ==
    \/ \E t \in Threads : Enter(t)
    \/ \E t \in Threads : ClientCheck(t)
    \/ \E t \in Threads : ClientNew(t)
    \/ \E t \in Threads : ClientStore(t)
    \/ \E t \in Threads : CollectionStore(t)
    \/ \E t \in Threads : CollectionRead(t)
    \/ \E t \in Threads : ModelCheck(t)
    \/ \E t \in Threads : ModelNew(t)
    \/ \E t \in Threads : ModelStore(t)
    \/ \E t \in Threads : ModelRead(t)

SpecInit == Init /\ [][NextInit]_vars

-----------------------------------------------------------------------------
(* Concurrent requests on the item store and the index.  update_book and     *)
(* delete_book run on pool threads, create_book on the event loop between    *)
(* its awaits; each opens its own Session.  The singletons are loaded and no *)
(* backend call fails.  The item store is the committed state of the books   *)
(* table.  An UPDATE of a row is flushed (by the autoflush before the lazy   *)
(* load of book.categories) ahead of the index calls, and holds the lock on  *)
(* the row until the commit: a second writer of the row waits for it.        *)

\* The Book object of an update_book request after its setattr loop: the row
\* as session.get loaded it, with the fields of the request
Updated(request) ==
    [f \in DOMAIN request.book |->
        IF f \in DOMAIN request.data THEN request.data[f] ELSE request.book[f]]

\* The threads whose UPDATE of row `id` is flushed and not yet committed
Writers(id) ==
    {t \in Threads : /\ pc[t] \in {"update_index_delete", "update_index_add",
                                    "update_commit"}
                     /\ got[t].id = id}

\* A request ends: with its commit, or with an error status
Finish(t, outcome) ==
    /\ pc' = [pc EXCEPT ![t] = "done"]
    /\ got' = [got EXCEPT ![t].outcome = outcome]

\* update_book: `book = session.get(Book, book_id)` for an id that some
\* request was given; 404 when there is no such row
UpdateGet(t) ==
    \E book_id \in 1..(next_id - 1), update_data \in BookUpdates :
        /\ pc[t] = "idle"
        /\ pc' = [pc EXCEPT ![t] =
                     IF book_id \in DOMAIN books THEN "update_flush" ELSE "done"]
        /\ got' = [got EXCEPT ![t] =
                      [op |-> "update_book", id |-> book_id, data |-> update_data,
                       book |-> IF book_id \in DOMAIN books THEN books[book_id]
                                ELSE None,
                       tags |-> None,
                       outcome |-> IF book_id \in DOMAIN books THEN "running"
                                   ELSE "404"]]
        /\ UNCHANGED <<DISABLE_EMBEDDINGS, books, next_id, _model, _client,
                       _collection, chroma, model_ctor_calls, client_ctor_calls, last>>

\* update_book: the setattr loop, and the first lazy load of book.categories,
\* which flushes the UPDATE of the row (a row that is gone fails the flush)
\* and reads the committed tags; final_categories and final_moods are those
\* of the request, or else the ones read here
UpdateFlush(t) ==
    /\ pc[t] = "update_flush"
    /\ Writers(got[t].id) = {}
    /\ IF got[t].id \notin DOMAIN books
       THEN Finish(t, "error")
       ELSE /\ pc' = [pc EXCEPT ![t] = "update_index_delete"]
            /\ got' = [got EXCEPT ![t].tags =
                          [f \in {"categories", "moods"} |->
                              IF f \in DOMAIN got[t].data THEN got[t].data[f]
                              ELSE books[got[t].id][f]]]
    /\ UNCHANGED <<DISABLE_EMBEDDINGS, books, next_id, _model, _client,
                   _collection, chroma, model_ctor_calls, client_ctor_calls, last>>

\* VectorStore.update_book: self.delete_book(book.id)
UpdateIndexDelete(t) ==
    /\ pc[t] = "update_index_delete"
    /\ SetServices(VectorStore_delete_book(Services, got[t].id, NoFault).sv)
    /\ pc' = [pc EXCEPT ![t] = "update_index_add"]
    /\ UNCHANGED <<DISABLE_EMBEDDINGS, books, next_id, last, got>>

\* VectorStore.update_book: self.add_book(book, categories, moods); an id the
\* collection holds again by now is ignored or refused, as the build has it,
\* and the handler catches the exception
UpdateIndexAdd(t) ==
    \E dup \in {"ignore", "raise"} :
        /\ pc[t] = "update_index_add"
        /\ SetServices(add_book(Services, got[t].id, Updated(got[t]),
                                got[t].tags.categories, got[t].tags.moods,
                                [NoFault EXCEPT !.dup = dup]).sv)
        /\ pc' = [pc EXCEPT ![t] = "update_commit"]
        /\ UNCHANGED <<DISABLE_EMBEDDINGS, books, next_id, last, got>>

\* update_book: session.commit().  The UPDATE wrote the columns whose value
\* the request changed from the one the Session had loaded; the tags the
\* request provides replace the stored ones.
UpdateCommit(t) ==
    /\ pc[t] = "update_commit"
    /\ books' = [books EXCEPT ![got[t].id] =
                    [f \in DOMAIN books[got[t].id] |->
                        IF /\ f \in DOMAIN got[t].data
                           /\ \/ f \in {"categories", "moods"}
                              \/ got[t].data[f] # got[t].book[f]
                        THEN got[t].data[f]
                        ELSE books[got[t].id][f]]]
    /\ Finish(t, "committed")
    /\ UNCHANGED <<DISABLE_EMBEDDINGS, next_id, _model, _client, _collection,
                   chroma, model_ctor_calls, client_ctor_calls, last>>

\* delete_book: `book = session.get(Book, book_id)`; 404 when there is no
\* such row
DeleteGet(t) ==
    \E book_id \in 1..(next_id - 1) :
        /\ pc[t] = "idle"
        /\ pc' = [pc EXCEPT ![t] =
                     IF book_id \in DOMAIN books THEN "delete_index" ELSE "done"]
        /\ got' = [got EXCEPT ![t] =
                      [op |-> "delete_book", id |-> book_id, data |-> None,
                       book |-> None, tags |-> None,
                       outcome |-> IF book_id \in DOMAIN books THEN "running"
                                   ELSE "404"]]
        /\ UNCHANGED <<DISABLE_EMBEDDINGS, books, next_id, _model, _client,
                       _collection, chroma, model_ctor_calls, client_ctor_calls, last>>

\* delete_book: vector_store.delete_book(book_id)
DeleteIndex(t) ==
    /\ pc[t] = "delete_index"
    /\ SetServices(VectorStore_delete_book(Services, got[t].id, NoFault).sv)
    /\ pc' = [pc EXCEPT ![t] = "delete_commit"]
    /\ UNCHANGED <<DISABLE_EMBEDDINGS, books, next_id, last, got>>

\* delete_book: session.delete(book); session.commit().  The DELETE waits for
\* a writer of the row, and fails on a row that is gone.
DeleteCommit(t) ==
    /\ pc[t] = "delete_commit"
    /\ Writers(got[t].id) = {}
    /\ IF got[t].id \in DOMAIN books
       THEN /\ books' = [i \in DOMAIN books \ {got[t].id} |-> books[i]]
            /\ Finish(t, "committed")
       ELSE /\ books' = books
            /\ Finish(t, "error")
    /\ UNCHANGED <<DISABLE_EMBEDDINGS, next_id, _model, _client, _collection,
                   chroma, model_ctor_calls, client_ctor_calls, last>>

\* create_book: session.add(book); session.commit(); session.refresh(book):
\* the row exists, with its id and without tags.  The tags are those of the
\* request or of the categorization.
CreateInsert(t) ==
    \E book_data \in BookCreates, auto_categorize \in BOOLEAN,
       suggestions \in Suggestions :
        /\ pc[t] = "idle"
        /\ next_id <= MaxBooks
        /\ books' = [i \in DOMAIN books \cup {next_id} |->
                        IF i = next_id THEN NewBook(book_data, <<>>, <<>>, None)
                        ELSE books[i]]
        /\ next_id' = next_id + 1
        /\ pc' = [pc EXCEPT ![t] = "create_index"]
        /\ got' = [got EXCEPT ![t] =
                      [op |-> "create_book", id |-> next_id,
                       data |-> book_data,
                       book |-> NewBook(book_data, <<>>, <<>>, None),
                       tags |-> CreateTags(book_data, auto_categorize, suggestions),
                       outcome |-> "running"]]
        /\ UNCHANGED <<DISABLE_EMBEDDINGS, _model, _client, _collection, chroma,
                       model_ctor_calls, client_ctor_calls, last>>

\* create_book: vector_store.add_book(book, categories, moods)
CreateIndex(t) ==
    /\ pc[t] = "create_index"
    /\ SetServices(add_book(Services, got[t].id, got[t].book, got[t].tags.categories,
                            got[t].tags.moods, NoFault).sv)
    /\ pc' = [pc EXCEPT ![t] = "create_commit"]
    /\ UNCHANGED <<DISABLE_EMBEDDINGS, books, next_id, last, got>>

\* create_book: the last session.commit() and session.refresh(book): the tags
\* are stored; the request fails when the row is gone
CreateCommit(t) ==
    /\ pc[t] = "create_commit"
    /\ IF got[t].id \in DOMAIN books
       THEN /\ books' = [books EXCEPT ![got[t].id].categories = got[t].tags.categories,
                                      ![got[t].id].moods = got[t].tags.moods]
            /\ Finish(t, "committed")
       ELSE /\ books' = books
            /\ Finish(t, "error")
    /\ UNCHANGED <<DISABLE_EMBEDDINGS, next_id, _model, _client, _collection,
                   chroma, model_ctor_calls, client_ctor_calls, last>>

\* One indexed book, created by an earlier create_book, in a process whose
\* singletons are loaded; every thread is free to take a request
InitRequests ==
    /\ DISABLE_EMBEDDINGS = "false"
    /\ next_id = 2
    /\ books \in [1..1 -> LibraryRows]
    /\ chroma = [i \in DOMAIN books |->
                    IndexRecord(books[i], books[i].categories, books[i].moods)]
    /\ _model = 1
    /\ _client = 1
    /\ _collection = 1
    /\ model_ctor_calls = 1
    /\ client_ctor_calls = 1
    /\ last = [op |-> "none"]
    /\ pc = [t \in Threads |-> "idle"]
    /\ got = [t \in Threads |-> [op |-> "none", id |-> 0, data |-> None,
                                 book |-> None, tags |-> None, outcome |-> "none"]]

NextRequests ==
    \/ \E t \in Threads : UpdateGet(t)
    \/ \E t \in Threads : UpdateFlush(t)
    \/ \E t \in Threads : UpdateIndexDelete(t)
    \/ \E t \in Threads : UpdateIndexAdd(t)
    \/ \E t \in Threads : UpdateCommit(t)
    \/ \E t \in Threads : DeleteGet(t)
    \/ \E t \in Threads : DeleteIndex(t)
    \/ \E t \in Threads : DeleteCommit(t)
    \/ \E t \in Threads : CreateInsert(t)
    \/ \E t \in Threads : CreateIndex(t)
    \/ \E t \in Threads : CreateCommit(t)

SpecRequests == InitRequests /\ [][NextRequests]_vars

-----------------------------------------------------------------------------
(* The functions of the services and routers that work on their arguments    *)
(* alone.  `last` holds the arguments a call is made with, then the call and  *)
(* what it returned; nothing else changes.                                    *)

\* The lists of at most n elements of S
SeqsUpTo(S, n) == UNION {[1..k -> S] : k \in 0..n}

OnlyLast ==
    UNCHANGED <<DISABLE_EMBEDDINGS, books, next_id, _model, _client, _collection,
                chroma, model_ctor_calls, client_ctor_calls, pc, got>>

\* Lists of categories and of moods handed to create_book_text: tags with an
\* expansion entry, a tag that is only a synonym (novel), tags that share a
\* synonym (thrilling and adventurous), repeated tags
ExpandCalls ==
    [op : {"call"}, fn : {"_expand_categories"},
     arg : SeqsUpTo({fiction, non_fiction, novel}, MaxTags)]
    \cup [op : {"call"}, fn : {"_expand_moods"},
          arg : SeqsUpTo({cozy, thrilling, adventurous}, MaxTags)]

\* EmbeddingService._expand_categories / _expand_moods applied to a list
ExpandTags ==
    /\ last.op = "call"
    /\ last.fn \in {"_expand_categories", "_expand_moods"}
    /\ last' = [op |-> last.fn, arg |-> last.arg,
                value |-> IF last.fn = "_expand_categories"
                          THEN _expand_categories(last.arg)
                          ELSE _expand_moods(last.arg)]
    /\ OnlyLast

\* settings.CATEGORIES and settings.MOODS (the entries of the tags the model
\* uses, in the order of the configuration)
CATEGORIES == <<fiction, non_fiction>>

MOODS == <<thrilling, dark, adventurous, cozy>>

\* categories[:3] and moods[:3] of CategorizationService.categorize_book
SuggestionLimit == 3

\* The value of a key of the JSON object of a reply: the key is absent, null,
\* a string, or an array of strings
JsonField(strings, lists) ==
    {[type |-> "absent", items |-> <<>>], [type |-> "null", items |-> <<>>]}
    \cup [type : {"string"}, items : strings]
    \cup [type : {"array"}, items : lists]

\* What the text of a reply is once json.loads has read it: not JSON at all,
\* a JSON value that is not an object, or an object
JsonTexts ==
    {[type |-> "garbage"], [type |-> "array"]}
    \cup [type : {"object"},
          categories : JsonField({fiction},
                                 SeqsUpTo({fiction, non_fiction, novel}, MaxSuggested)),
          moods : JsonField({}, SeqsUpTo({cozy, warm}, MaxSuggested))]

\* The content of a reply: the JSON text bare or inside a ``` fence, with or
\* without the word json in front of it
Contents == [fenced : BOOLEAN, json_tag : BOOLEAN, text : JsonTexts]

\* What a call of the generation model comes to: no client (no API key), the
\* call raises, or a reply with some content
GenerationReplies ==
    {[client |-> FALSE, call |-> "none", content |-> None],
     [client |-> TRUE, call |-> "raise", content |-> None]}
    \cup [client : {TRUE}, call : {"ok"}, content : Contents]

\* categorize_book: the fence is cut away (content.split("```")[1], and a
\* leading "json"), then json.loads; text that is not JSON, or bare text that
\* starts with the word json, raises
ParseContent(content) ==
    IF content.text.type = "garbage" \/ (~content.fenced /\ content.json_tag)
    THEN [raised |-> TRUE, value |-> None]
    ELSE [raised |-> FALSE, value |-> content.text]

\* What `for c in result.get(key, [])` iterates over: the elements of an
\* array, the characters of a string, nothing for an absent key
Elements(field) ==
    IF field.type = "string"
    THEN [i \in 1..Len(field.items) |-> <<field.items[i]>>]
    ELSE field.items

\* Validated without the membership test
Validated_unchecked(field, valid) == Elements(field)

\* [c for c in result.get(key, []) if c in valid]
Validated(field, valid) ==
    SelectSeq(Elements(field), LAMBDA c : c \in Range(valid))

NoSuggestions == [categories |-> <<>>, moods |-> <<>>]

\* categorize_book without the try/except around the call and the parsing
categorize_book_unguarded(title, author, description, reply) ==
    IF ~reply.client THEN [raised |-> FALSE, value |-> NoSuggestions]
    ELSE IF reply.call = "raise" THEN [raised |-> TRUE, value |-> None]
    ELSE LET result == ParseContent(reply.content)
         IN IF result.raised THEN [raised |-> TRUE, value |-> None]
            ELSE IF result.value.type # "object" THEN [raised |-> TRUE, value |-> None]
            ELSE IF \/ result.value.categories.type = "null"
                    \/ result.value.moods.type = "null"
                 THEN [raised |-> TRUE, value |-> None]
            ELSE [raised |-> FALSE,
                  value |-> [categories |-> Take(Validated(result.value.categories,
                                                           CATEGORIES), SuggestionLimit),
                             moods |-> Take(Validated(result.value.moods, MOODS),
                                            SuggestionLimit)]]

\* CategorizationService.categorize_book; `reply` is what the call of the
\* generation model comes to.  Inside the try, a value that is not an object
\* has no .get (AttributeError) and a null key cannot be iterated
\* (TypeError); every Exception gives the empty suggestions.
categorize_book(title, author, description, reply) ==
    IF ~reply.client THEN [raised |-> FALSE, value |-> NoSuggestions]
    ELSE IF reply.call = "raise" THEN [raised |-> FALSE, value |-> NoSuggestions]
    ELSE LET result == ParseContent(reply.content)
         IN IF result.raised THEN [raised |-> FALSE, value |-> NoSuggestions]
            ELSE IF result.value.type # "object"
                 THEN [raised |-> FALSE, value |-> NoSuggestions]
            ELSE IF \/ result.value.categories.type = "null"
                    \/ result.value.moods.type = "null"
                 THEN [raised |-> FALSE, value |-> NoSuggestions]
            ELSE [raised |-> FALSE,
                  value |-> [categories |-> Take(Validated(result.value.categories,
                                                           CATEGORIES), SuggestionLimit),
                             moods |-> Take(Validated(result.value.moods, MOODS),
                                            SuggestionLimit)]]

CategorizeCalls == [op : {"call"}, fn : {"categorize_book"}, arg : GenerationReplies]

\* CategorizationService.categorize_book applied to a book, with what the
\* generation model replies
Categorize ==
    /\ last.op = "call"
    /\ last.fn = "categorize_book"
    /\ \E r \in {categorize_book("Emma", "Austen", "", last.arg)} :
          last' = [op |-> "categorize_book", arg |-> last.arg, raised |-> r.raised,
                   value |-> r.value]
    /\ OnlyLast

\* The cells of the rating column: no text, blanks, text that is no number,
\* "nan", "inf" and "-inf" (which float() reads), and the decimal numbers with
\* one digit after the point, given in tenths ("-0.5" is -5)
RatingCells ==
    [kind : {"empty", "blank", "text", "nan", "inf", "-inf"}, tenths : {0}]
    \cup [kind : {"number"}, tenths : (0 - 10 * MaxRating)..(10 * MaxRating)]

\* int(x) of a float x given in tenths: the fraction is cut off, toward zero
int(tenths) == IF tenths >= 0 THEN tenths \div 10 ELSE 0 - ((0 - tenths) \div 10)

\* parse_int: an Optional[int] is the empty set (None) or the set of the
\* integer.  float() raises ValueError for text that is no number and int()
\* raises ValueError for nan, which parse_int catches; int() raises
\* OverflowError for an infinity, which it does not catch.
parse_int(value) ==
    IF value.kind \in {"empty", "blank"} THEN [raised |-> FALSE, value |-> {}]
    ELSE IF value.kind \in {"text", "nan"} THEN [raised |-> FALSE, value |-> {}]
    ELSE IF value.kind \in {"inf", "-inf"} THEN [raised |-> TRUE, value |-> {}]
    ELSE [raised |-> FALSE, value |-> {int(value.tenths)}]

\* import_csv: the rating of a row, parse_int and "Ensure rating is 1-5"
import_rating(value) ==
    LET rating == parse_int(value)
    IN IF rating.raised THEN rating
       ELSE [raised |-> FALSE,
             value |-> {IF n > 5 THEN 5 ELSE IF n < 1 THEN 1 ELSE n :
                           n \in rating.value \ {0}}]

RatingCalls == [op : {"call"}, fn : {"import_rating"}, arg : RatingCells]

\* import_csv reads the rating of a row
ImportRating ==
    /\ last.op = "call"
    /\ last.fn = "import_rating"
    /\ \E r \in {import_rating(last.arg)} :
          last' = [op |-> "import_rating", arg |-> last.arg, raised |-> r.raised,
                   value |-> r.value]
    /\ OnlyLast

\* str.lower() on the letters of the titles and authors
lower(c) ==
    IF c = "A" THEN "a" ELSE IF c = "B" THEN "b" ELSE IF c = "D" THEN "d"
    ELSE IF c = "E" THEN "e" ELSE c

Whitespace == {" "}

\* The characters [^\w\s] removes from the titles and authors
Punctuation == {"!", ".", "-", ","}

\* str.split(): the words between runs of whitespace
RECURSIVE Words(_, _)
Words(s, word) ==
    IF s = <<>> THEN (IF word = <<>> THEN <<>> ELSE <<word>>)
    ELSE IF Head(s) \in Whitespace
         THEN (IF word = <<>> THEN <<>> ELSE <<word>>) \o Words(Tail(s), <<>>)
    ELSE Words(Tail(s), Append(word, Head(s)))

\* ' '.join(words)
RECURSIVE JoinWords(_)
JoinWords(words) ==
    IF words = <<>> THEN <<>>
    ELSE IF Len(words) = 1 THEN words[1]
    ELSE words[1] \o <<" ">> \o JoinWords(Tail(words))

\* normalize_name: lower case, punctuation removed, whitespace normalized
normalize_name(name) ==
    LET lowered == [i \in 1..Len(name) |-> lower(name[i])]
        kept == SelectSeq(lowered, LAMBDA c : c \notin Punctuation)
    IN JoinWords(Words(kept, <<>>))

\* re.sub(r'[\s-]', '', isbn)
normalized_isbn(isbn) == SelectSeq(isbn, LAMBDA c : c \notin Whitespace \cup {"-"})

\* The rows find_duplicates reads: three spellings of titles (two of them the
\* same after normalize_name) and an ISBN that is absent, written in two ways,
\* or another one
ShelfBooks ==
    [title : {<<"E", "m", "m", "a">>, <<" ", "e", "m", "m", "a", "!">>,
              <<"D", "u", "n", "e">>},
     author : {<<"A", ".", " ", "B">>},
     isbn : {None, <<"1", "2">>, <<"1", "-", "2">>, <<"2", "1">>}]

\* The keys of a dict in the order of their insertion
RECURSIVE InsertionOrder(_, _)
InsertionOrder(keys, seen) ==
    IF keys = <<>> THEN <<>>
    ELSE IF Head(keys) \in seen THEN InsertionOrder(Tail(keys), seen)
    ELSE <<Head(keys)>> \o InsertionOrder(Tail(keys), seen \cup {Head(keys)})

\* f"{normalize_name(book.title)}|{normalize_name(book.author)}"
TitleAuthorKey(book) == normalize_name(book.title) \o <<"|">> \o normalize_name(book.author)

\* Whether the book is put in an ISBN group
HasIsbn(book) ==
    /\ book.isbn # None
    /\ book.isbn # <<>>
    /\ normalized_isbn(book.isbn) # <<>>

\* The first loop over isbn_groups.items(); a book is named by its id, its
\* place in `books`
RECURSIVE IsbnGroups(_, _, _, _)
IsbnGroups(books_, keys, groups, seen) ==
    IF keys = <<>> THEN [groups |-> groups, seen |-> seen]
    ELSE LET group_books == SelectSeq([i \in 1..Len(books_) |-> i],
                                LAMBDA i : /\ HasIsbn(books_[i])
                                           /\ normalized_isbn(books_[i].isbn) = Head(keys))
         IN IF Len(group_books) > 1 /\ ~(Range(group_books) \subseteq seen)
            THEN IsbnGroups(books_, Tail(keys),
                            Append(groups, [by |-> "ISBN", key |-> Head(keys),
                                            books |-> group_books]),
                            seen \cup Range(group_books))
            ELSE IsbnGroups(books_, Tail(keys), groups, seen)

\* remaining_books that keeps the books already in a group
remaining_books_all(group_books, seen) == group_books

\* remaining_books = [b for b in group_books if b.id not in seen_book_ids]
remaining_books(group_books, seen) == SelectSeq(group_books, LAMBDA i : i \notin seen)

\* The second loop, over title_author_groups.items()
RECURSIVE TitleAuthorGroups(_, _, _, _)
TitleAuthorGroups(books_, keys, groups, seen) ==
    IF keys = <<>> THEN [groups |-> groups, seen |-> seen]
    ELSE LET group_books == SelectSeq([i \in 1..Len(books_) |-> i],
                                LAMBDA i : TitleAuthorKey(books_[i]) = Head(keys))
             remaining == remaining_books(group_books, seen)
         IN IF Len(group_books) > 1 /\ Len(remaining) > 1
            THEN TitleAuthorGroups(books_, Tail(keys),
                                   Append(groups, [by |-> "Title+Author", key |-> Head(keys),
                                                   books |-> remaining]),
                                   seen \cup Range(remaining))
            ELSE TitleAuthorGroups(books_, Tail(keys), groups, seen)

\* sum(len(g.books) - 1 for g in duplicate_groups)
RECURSIVE SumDuplicates(_)
SumDuplicates(groups) ==
    IF groups = <<>> THEN 0
    ELSE (Len(Head(groups).books) - 1) + SumDuplicates(Tail(groups))

\* find_duplicates (GET /api/books/duplicates) for the rows `books_` of the
\* store
find_duplicates(books_) ==
    LET ids == [i \in 1..Len(books_) |-> i]
        isbn_keys == InsertionOrder(
                         [k \in 1..Len(SelectSeq(ids, LAMBDA i : HasIsbn(books_[i]))) |->
                             normalized_isbn(
                                 books_[SelectSeq(ids, LAMBDA i : HasIsbn(books_[i]))[k]].isbn)],
                         {})
        title_keys == InsertionOrder([i \in 1..Len(books_) |-> TitleAuthorKey(books_[i])],
                                     {})
        by_isbn == IsbnGroups(books_, isbn_keys, <<>>, {})
        by_title == TitleAuthorGroups(books_, title_keys, by_isbn.groups, by_isbn.seen)
    IN [duplicate_groups |-> by_title.groups,
        total_duplicates |-> SumDuplicates(by_title.groups)]

DuplicateCalls == [op : {"call"}, fn : {"find_duplicates"}, arg : SeqsUpTo(ShelfBooks, MaxShelf)]

\* GET /api/books/duplicates
FindDuplicates ==
    /\ last.op = "call"
    /\ last.fn = "find_duplicates"
    /\ \E r \in {find_duplicates(last.arg)} :
          last' = [op |-> "find_duplicates", arg |-> last.arg, value |-> r]
    /\ OnlyLast

\* Tags as a request may give them (list[str] of BookCreate): tags of the
\* configuration, a tag with a comma in it ("sci-fi, space" in short) and the
\* empty string
FreeTags == {fiction, novel, <<"a", ",", "b">>, <<>>}

StoredTagCalls ==
    [op : {"call"}, fn : {"add_book"},
     arg : [categories : SeqsUpTo(FreeTags, MaxTags), moods : SeqsUpTo({cozy, <<>>}, MaxTags)]]

\* add_book writes the record of a book with the given tags, and a search
\* that finds the record formats it
StoreAndFormat ==
    /\ last.op = "call"
    /\ last.fn = "add_book"
    /\ \E book \in {b \in BookCreates : b.title = "Emma"} :
          \E found \in {Formatted(1, IndexRecord(book, last.arg.categories, last.arg.moods),
                                  0)} :
              last' = [op |-> "add_book", arg |-> last.arg,
                       value |-> [categories |-> found.categories, moods |-> found.moods]]
    /\ OnlyLast

FunctionCalls ==
    ExpandCalls \cup CategorizeCalls \cup RatingCalls \cup DuplicateCalls
    \cup StoredTagCalls

InitFunctions ==
    /\ DISABLE_EMBEDDINGS = "false"
    /\ books = <<>>
    /\ next_id = 1
    /\ _model = NoInstance
    /\ _client = NoInstance
    /\ _collection = NoInstance
    /\ chroma = <<>>
    /\ model_ctor_calls = 0
    /\ client_ctor_calls = 0
    /\ last \in FunctionCalls
    /\ pc = [t \in Threads |-> "idle"]
    /\ got = [t \in Threads |->
                 [model |-> NoInstance, collection |-> NoInstance, new |-> NoInstance]]

NextFunctions ==
    \/ ExpandTags
    \/ Categorize
    \/ ImportRating
    \/ FindDuplicates
    \/ StoreAndFormat

SpecFunctions == InitFunctions /\ [][NextFunctions]_vars

-----------------------------------------------------------------------------
(* The batch requests: the CSV import and the recategorization of the store  *)

\* A data row of the file, with what happens while it is imported.  title: ""
\* is a row without title.  enriched: what enrich_book gives (the empty
\* suggestions when the enrichment is off, finds nothing or raises).  fail:
\* the call that raises for this row: the first commit (of the Book), the
\* second commit (of its tags), the embedding step, or book_to_read.
ImportRows ==
    [title : {"Emma", ""}, categories : {<<>>, <<non_fiction>>},
     enriched : Suggestions,
     fail : {"none", "commit1", "commit2", "index", "read"}]

\* The BookCreate-like fields of a row (the format and the reading status are
\* the defaults of normalize_format and normalize_status)
ImportedFields(row) ==
    [title |-> row.title, author |-> "Austen", description |-> "",
     format |-> "kindle", reading_status |-> "unread"]

\* The rows loop of import_csv.  acc: sv, the rows of the store (books), the
\* next id of the store (next_id), and the lists imported (ids) and errors
\* (row numbers).
RECURSIVE ImportLoop(_, _, _)
ImportLoop(acc, rows, row_num) ==
    IF rows = <<>> THEN acc
    ELSE LET row == Head(rows)
             id == acc.next_id
             failed == [acc EXCEPT !.errors = Append(@, row_num)]
             categories == IF row.enriched.categories # <<>> /\ row.categories = <<>>
                           THEN row.enriched.categories ELSE row.categories
             moods == row.enriched.moods
             \* session.add(book); session.commit()
             first == [i \in DOMAIN acc.books \cup {id} |->
                          IF i = id THEN NewBook(ImportedFields(row), <<>>, <<>>, None)
                          ELSE acc.books[i]]
             \* the tags are added and committed
             second == [first EXCEPT ![id] = NewBook(ImportedFields(row), categories,
                                                     moods, None)]
             a == add_book(acc.sv, id, ImportedFields(row), categories, moods,
                           IF row.fail = "index" THEN [NoFault EXCEPT !.add = FALSE]
                           ELSE NoFault)
         IN IF row.title = "" THEN ImportLoop(failed, Tail(rows), row_num + 1)
            ELSE IF row.fail = "commit1" THEN ImportLoop(failed, Tail(rows), row_num + 1)
            ELSE IF row.fail = "commit2"
                 THEN ImportLoop([failed EXCEPT !.books = first, !.next_id = id + 1],
                                 Tail(rows), row_num + 1)
            ELSE IF row.fail = "read"
                 THEN ImportLoop([failed EXCEPT !.sv = a.sv, !.books = second,
                                                !.next_id = id + 1],
                                 Tail(rows), row_num + 1)
            ELSE ImportLoop([acc EXCEPT !.sv = a.sv, !.books = second,
                                        !.next_id = id + 1,
                                        !.imported = Append(@, id)],
                            Tail(rows), row_num + 1)

\* import_csv (POST /api/import/csv) of a file with the data rows `rows`; the
\* header is row 1
import_csv(sv, rows_, next, rows) ==
    LET done == ImportLoop([sv |-> sv, books |-> rows_, next_id |-> next,
                            imported |-> <<>>, errors |-> <<>>], rows, 2)
    IN [raised |-> FALSE, sv |-> done.sv, books |-> done.books, next_id |-> done.next_id,
        value |-> [imported_count |-> Len(done.imported),
                   error_count |-> Len(done.errors),
                   imported |-> done.imported, errors |-> done.errors]]

ImportCalls == [op : {"call"}, fn : {"import_csv"}, arg : SeqsUpTo(ImportRows, MaxRows)]

\* POST /api/import/csv
ImportCsv ==
    /\ last.op = "call"
    /\ last.fn = "import_csv"
    /\ \E r \in {import_csv(Services, books, next_id, last.arg)} :
          /\ books' = r.books
          /\ next_id' = r.next_id
          /\ SetServices(r.sv)
          /\ last' = [op |-> "import_csv", arg |-> last.arg, raised |-> r.raised,
                      value |-> r.value,
                      before |-> [books |-> DOMAIN books, chroma |-> DOMAIN chroma]]
    /\ UNCHANGED <<DISABLE_EMBEDDINGS, pc, got>>

\* The store with n books: untagged books, the first of them tagged if
\* `tagged`
Library(n, tagged) ==
    [i \in 1..n |->
        IF tagged /\ i = 1
        THEN NewBook(ImportedFields([title |-> "Sapiens"]), <<non_fiction>>, <<dark>>, None)
        ELSE NewBook(ImportedFields([title |-> "Emma"]), <<>>, <<>>, None)]

\* The suggestions of a categorization that found tags
Suggested == CHOOSE s \in Suggestions : s # NoSuggestions

\* "Commit every 10 books to avoid losing progress"
CommitEvery == 10

\* The requests POST /api/books/recategorize, with what happens during the
\* run.  Every book gets the suggested tags, except the one at the place
\* `special` of the selected books (0: none), for which the categorization
\* returns nothing ("empty") or raises ("raise"), or whose embedding step
\* raises ("index").  commit: every commit succeeds ("ok"); the intermediate
\* commits raise and the session can be used afterwards ("intermediate") or
\* cannot ("inactive"); the final commit raises ("final").
RecategorizeCalls ==
    [op : {"call"}, fn : {"recategorize_all_books"},
     arg : {a \in [force : BOOLEAN, limit : {1, 100}, special : 0..MaxSelected,
                   outcome : {"empty", "raise", "index"},
                   commit : {"ok", "intermediate", "inactive", "final"}] :
               a.special = 0 => a.outcome = "empty"}]

\* The books the query selects: all with force, else those without categories
\* or without moods; at most `limit` of them
Selected(rows_, force, limit) ==
    Take(SelectSeq(SortedSeq(DOMAIN rows_),
                   LAMBDA i : \/ force
                              \/ rows_[i].categories = <<>>
                              \/ rows_[i].moods = <<>>),
         limit)

\* session.commit(): the rows changed in the session are written
Committed(rows_, pending) ==
    [i \in DOMAIN rows_ |-> IF i \in DOMAIN pending THEN pending[i] ELSE rows_[i]]

\* The loop of recategorize_all_books over the selected books.  acc: sv, the
\* rows of the store (books), the rows changed in the session and not yet
\* committed (pending), the counters, and raised (an exception left the
\* handler).  k is the place of Head(ids) among the selected books.
RECURSIVE RecategorizeLoop(_, _, _, _)
RecategorizeLoop(acc, ids, k, arg) ==
    IF ids = <<>> THEN acc
    ELSE LET id == Head(ids)
             book == IF id \in DOMAIN acc.pending THEN acc.pending[id] ELSE acc.books[id]
             outcome == IF k = arg.special THEN arg.outcome ELSE "ok"
             u == VectorStore_update_book(acc.sv, id, book, Suggested.categories,
                                          Suggested.moods,
                                          IF outcome = "index"
                                          THEN [NoFault EXCEPT !.add = FALSE]
                                          ELSE NoFault)
             changed == [book EXCEPT !.categories = Suggested.categories,
                                     !.moods = Suggested.moods,
                                     !.embedding = IF u.raised THEN @ ELSE u.value]
             pending == [i \in DOMAIN acc.pending \cup {id} |->
                            IF i = id THEN changed ELSE acc.pending[i]]
             updated == acc.updated + 1
         IN IF ~arg.force /\ book.categories # <<>> /\ book.moods # <<>>
            THEN RecategorizeLoop([acc EXCEPT !.skipped = @ + 1], Tail(ids), k + 1, arg)
            ELSE IF outcome \in {"empty", "raise"}
                 THEN RecategorizeLoop([acc EXCEPT !.failed = @ + 1], Tail(ids), k + 1, arg)
            ELSE IF updated % CommitEvery # 0
                 THEN RecategorizeLoop([acc EXCEPT !.sv = u.sv, !.pending = pending,
                                                   !.updated = updated],
                                       Tail(ids), k + 1, arg)
            ELSE IF arg.commit = "intermediate"
                 THEN RecategorizeLoop([acc EXCEPT !.sv = u.sv, !.pending = <<>>,
                                                   !.updated = updated,
                                                   !.failed = @ + 1],
                                       Tail(ids), k + 1, arg)
            ELSE IF arg.commit = "inactive"
                 THEN [acc EXCEPT !.sv = u.sv, !.pending = <<>>, !.updated = updated,
                                  !.raised = TRUE]
            ELSE RecategorizeLoop([acc EXCEPT !.sv = u.sv,
                                              !.books = Committed(acc.books, pending),
                                              !.pending = <<>>, !.updated = updated],
                                  Tail(ids), k + 1, arg)

\* recategorize_all_books (POST /api/books/recategorize)
recategorize_all_books(sv, rows_, arg) ==
    LET selected == Selected(rows_, arg.force, arg.limit)
        done == RecategorizeLoop([sv |-> sv, books |-> rows_, pending |-> <<>>,
                                  updated |-> 0, failed |-> 0, skipped |-> 0,
                                  raised |-> FALSE], selected, 1, arg)
    IN IF done.raised \/ arg.commit = "final"
       THEN [raised |-> TRUE, sv |-> done.sv, books |-> done.books, value |-> None]
       ELSE [raised |-> FALSE, sv |-> done.sv,
             books |-> Committed(done.books, done.pending),
             value |-> [total |-> Len(selected), updated |-> done.updated,
                        failed |-> done.failed, skipped |-> done.skipped]]

\* POST /api/books/recategorize
RecategorizeAll ==
    /\ last.op = "call"
    /\ last.fn = "recategorize_all_books"
    /\ \E r \in {recategorize_all_books(Services, books, last.arg)} :
          /\ books' = r.books
          /\ SetServices(r.sv)
          /\ last' = [op |-> "recategorize_all_books", arg |-> last.arg,
                      raised |-> r.raised, value |-> r.value,
                      selected |-> Selected(books, last.arg.force, last.arg.limit)]
    /\ UNCHANGED <<DISABLE_EMBEDDINGS, next_id, pc, got>>

BatchCalls == ImportCalls \cup RecategorizeCalls

\* A store whose books are all in the index, and a batch request
InitBatch ==
    /\ DISABLE_EMBEDDINGS = "false"
    /\ last \in BatchCalls
    /\ \/ /\ last.fn = "import_csv"
          /\ books \in {Library(0, FALSE), Library(1, TRUE)}
       \/ /\ last.fn = "recategorize_all_books"
          /\ books \in {Library(n, tagged) : n \in 0..MaxSelected, tagged \in BOOLEAN}
    /\ next_id = Len(books) + 1
    /\ _model = NoInstance
    /\ _client = NoInstance
    /\ _collection = NoInstance
    /\ chroma = [i \in DOMAIN books |->
                    IndexRecord(books[i], books[i].categories, books[i].moods)]
    /\ model_ctor_calls = 0
    /\ client_ctor_calls = 0
    /\ pc = [t \in Threads |-> "idle"]
    /\ got = [t \in Threads |->
                 [model |-> NoInstance, collection |-> NoInstance, new |-> NoInstance]]

NextBatch ==
    \/ ImportCsv
    \/ RecategorizeAll

SpecBatch == InitBatch /\ [][NextBatch]_vars

-----------------------------------------------------------------------------
(* Properties *)

\* The ids whose delete_book request has completed: handed out, and gone
\* from the item store
Deleted == {i \in 1..(next_id - 1) : i \notin DOMAIN books}

\* The ids VectorStore.search returns for a request when nothing raises
FoundIds(rq) ==
    LET found == SearchResults(chroma, encode([Query |-> rq.query]), rq.n_results,
                               rq.category, rq.mood, rq.format, rq.reading_status)
    IN {found[k].id : k \in 1..Len(found)}

\* VectorStore.search applied to a request
Retrieve(rq, fx) ==
    VectorStore_search(Services, rq.query, rq.n_results, rq.category, rq.mood,
                       rq.format, rq.reading_status, fx)

\* RAGService.search applied to a request
Answer(rq, o) ==
    RAGService_search(Services, rq.query, rq.n_results, rq.category, rq.mood,
                      rq.format, rq.reading_status, o.fx, o.gen)

\* C1: once delete_book has completed for an id, the index holds no record of
\* that id and no search, whatever its query and filters, returns it --
\* whatever the index delete call inside the request did.
C1_CascadeDelete ==
    \A id \in Deleted :
        /\ id \notin DOMAIN chroma
        /\ \A rq \in SearchRequests : id \notin FoundIds(rq)

\* C2: every result of VectorStore.search has the category filter among its
\* categories, the mood filter among its moods, the format filter as its format
\* and the reading_status filter as its reading_status, for every combination
\* of the four filters.
C2_FilterCorrectness ==
    \A rq \in SearchRequests :
        LET r == Retrieve(rq, NoFault)
        IN ~r.raised =>
              \A k \in 1..Len(r.value) :
                  /\ rq.category # NoTag => rq.category \in Range(r.value[k].categories)
                  /\ rq.mood # NoTag => rq.mood \in Range(r.value[k].moods)
                  /\ rq.format # None => r.value[k].format = rq.format
                  /\ rq.reading_status # None =>
                         r.value[k].reading_status = rq.reading_status

\* C3: the search endpoint always returns a response: when the embedding model
\* or the index fails it answers "no matches" with no book, and no exception
\* leaves it.
C3_SearchNeverRaises ==
    last.op = "search_books" => ~last.raised

\* C4: after a run of sync_from_database over all items in which no call
\* failed, the index holds exactly the ids of the item store, each with the
\* record derived from the item's current fields.
C4_Convergence ==
    (last.op = "sync_from_database" /\ last.clean) =>
        /\ DOMAIN chroma = DOMAIN books
        /\ \A i \in DOMAIN books :
               chroma[i] = IndexRecord(books[i], books[i].categories, books[i].moods)

\* C5: a run of sync_from_database in which no call fails returns the number
\* of items whose id was not in the index when it started; a second such run
\* right after it returns 0 and adds nothing.
C5_IdempotentReconciliation ==
    (last.op = "sync_from_database" /\ last.clean) =>
        /\ ~last.raised
        /\ last.value = Cardinality(last.missing)
        /\ last.again => (last.value = 0 /\ last.added = {})

\* C5 witness: a second clean run, after a first one that repaired something
C5_Witness ==
    /\ last.op = "sync_from_database"
    /\ last.clean
    /\ last.again
    /\ last.before >= 1

\* C6: after the startup sync, with embeddings enabled and the index
\* reachable, every item of the store has an index record.
C6_StartupRepairs ==
    (last.op = "sync_vector_store" /\ DISABLE_EMBEDDINGS # "true" /\ last.reachable) =>
        DOMAIN books \subseteq DOMAIN chroma

\* C7: under concurrent first use the model constructor and the index client
\* constructor each run at most once, and every caller is handed the same
\* instances.
C7_AtMostOnceInit ==
    /\ model_ctor_calls <= 1
    /\ client_ctor_calls <= 1
    /\ \A t \in Threads, u \in Threads :
           (pc[t] = "done" /\ pc[u] = "done") =>
               /\ got[t].model = got[u].model
               /\ got[t].collection = got[u].collection

\* C8: with DISABLE_EMBEDDINGS = "true" a search is a no-op: it returns an
\* empty result and does not raise.
C8_DisabledNoOp ==
    (DISABLE_EMBEDDINGS = "true" /\ last.op = "search_books") =>
        (~last.raised /\ last.n = 0)

\* C9: when the retrieval returns a non-empty list and the generation call
\* fails, RAGService.search returns the fallback answer naming the titles of
\* the first min(3, n) retrieved items in rank order, with the ranked list
\* unchanged.
C9_FallbackGuarantee ==
    \A rq \in SearchRequests :
        LET v == Retrieve(rq, NoFault)
            r == Answer(rq, [fx |-> NoFault, gen |-> "raise"])
        IN (~v.raised /\ v.value # <<>>) =>
              /\ ~r.raised
              /\ r.value.response.kind = "fallback"
              /\ r.value.response.titles # <<>>
              /\ r.value.response.titles =
                     [k \in 1..Min(3, Len(v.value)) |-> v.value[k].title]
              /\ r.value.books = v.value

\* C9 witness: a search answered by the fallback with more than three books
C9_Witness ==
    /\ last.op = "search_books"
    /\ last.kind = "fallback"
    /\ last.n > 3

\* C10: when the retrieval yields no item, RAGService.search returns the fixed
\* "no matches" reply with no book and the generation model is not called; no
\* search calls the generation model more than once.
C10_NoGenerationWhenEmpty ==
    /\ last.op = "search_books" =>
           /\ last.gen_calls <= 1
           /\ (~last.raised /\ last.n = 0) =>
                  (last.kind = "no_matches" /\ last.gen_calls = 0)
    /\ \A rq \in SearchRequests, o \in SearchOutcomes :
           LET v == Retrieve(rq, o.fx)
               r == Answer(rq, o)
           IN /\ r.gen_calls <= 1
              /\ (~v.raised /\ v.value = <<>>) =>
                     /\ ~r.raised
                     /\ r.value = [response |-> NoMatches, books |-> <<>>]
                     /\ r.gen_calls = 0

\* C10 witness: a search that found nothing and answered "no matches"
C10_Witness ==
    /\ last.op = "search_books"
    /\ ~last.raised
    /\ last.kind = "no_matches"
    /\ chroma # <<>>

\* The ids of a list of search results
Ids(results) == {results[k].id : k \in 1..Len(results)}

\* A search result has the category and the mood of the request among its
\* tags, and the format and the reading status of the request
Satisfies(result, rq) ==
    /\ rq.category # NoTag => rq.category \in Range(result.categories)
    /\ rq.mood # NoTag => rq.mood \in Range(result.moods)
    /\ rq.format # None => result.format = rq.format
    /\ rq.reading_status # None => result.reading_status = rq.reading_status

\* Every record of the index, formatted as a search result for a request
Indexed(rq) ==
    {Formatted(i, chroma[i],
               CosineDistance(encode([Query |-> rq.query]), chroma[i].embedding)) :
        i \in DOMAIN chroma}

\* C11: for a search asking for k results the index is queried for 2k
\* candidates restricted by the format and reading_status filters only, and
\* the result is the first k of those candidates, in similarity order, that
\* have the category and the mood of the request among their tags.
C11_OverFetchPostFilter ==
    \A rq \in SearchRequests :
        LET call == QueryArguments(rq.n_results, rq.category, rq.mood, rq.format,
                                   rq.reading_status)
            r == Retrieve(rq, NoFault)
            candidates == SearchResults(chroma, encode([Query |-> rq.query]),
                                        2 * rq.n_results, NoTag, NoTag, rq.format,
                                        rq.reading_status)
            survivors == SelectSeq(candidates, LAMBDA c : Satisfies(c, rq))
        IN /\ call.n_results = 2 * rq.n_results
           /\ call.where \subseteq {"format", "reading_status"}
           /\ ~r.raised => r.value = Take(survivors, rq.n_results)

\* C12: with embeddings enabled and no call failing, a search asking for k
\* results returns without error at most k items; when fewer than k indexed
\* items satisfy the filters it returns exactly those items, and on an empty
\* index it returns the empty list.
C12_BoundedResults ==
    DISABLE_EMBEDDINGS # "true" =>
        \A rq \in SearchRequests :
            LET r == Retrieve(rq, NoFault)
                matching == {x \in Indexed(rq) : Satisfies(x, rq)}
            IN /\ ~r.raised
               /\ Len(r.value) <= rq.n_results
               /\ Cardinality(matching) < rq.n_results =>
                      /\ Len(r.value) = Cardinality(matching)
                      /\ Range(r.value) = matching
               /\ chroma = <<>> => r.value = <<>>

\* C13: the list a search returns is in non-increasing order of similarity,
\* the similarity of each result is 1 minus the cosine distance between the
\* query vector and the vector of its record, and the book list of the reply
\* and the numbered context blocks are in that same order.
C13_RankOrder ==
    \A rq \in SearchRequests :
        LET v == Retrieve(rq, NoFault)
            r == Respond(Services, rq, [fx |-> NoFault, gen |-> "ok"])
            q == encode([Query |-> rq.query])
        IN ~v.raised =>
              /\ \A k \in 1..Len(v.value) :
                     v.value[k].similarity
                         = 1 - CosineDistance(q, chroma[v.value[k].id].embedding)
              /\ \A k \in 1..(Len(v.value) - 1) :
                     v.value[k].similarity >= v.value[k + 1].similarity
              /\ ~r.raised
              /\ Len(r.value.books) = Len(v.value)
              /\ \A k \in 1..Len(v.value) :
                     /\ r.value.books[k].id = v.value[k].id
                     /\ r.value.books[k].similarity = v.value[k].similarity
              /\ v.value # <<>> =>
                     /\ Len(r.value.response.context) = Len(v.value)
                     /\ \A k \in 1..Len(v.value) :
                            /\ r.value.response.context[k].n = k
                            /\ r.value.response.context[k].title = v.value[k].title
                            /\ r.value.response.context[k].author = v.value[k].author

\* C13 witness: a search was answered, and some request is answered with a
\* book of higher id ranked before a book of lower id and lower similarity
C13_Witness ==
    /\ last.op = "search_books"
    /\ ~last.raised
    /\ last.n >= 2
    /\ \E rq \in SearchRequests :
           LET v == Retrieve(rq, NoFault)
           IN /\ ~v.raised
              /\ Len(v.value) >= 2
              /\ v.value[1].id > v.value[2].id
              /\ v.value[1].similarity > v.value[2].similarity

\* C20: every similarity a search returns lies between 0 and 1, whatever
\* cosine distance (between 0 and 2) the index reports.
C20_SimilarityRange ==
    \A rq \in SearchRequests :
        LET r == Respond(Services, rq, [fx |-> NoFault, gen |-> "ok"])
        IN ~r.raised =>
              \A k \in 1..Len(r.value.books) :
                  /\ r.value.books[k].similarity >= 0
                  /\ r.value.books[k].similarity <= 1

\* C17: whatever the embedding step of create_book or update_book does
\* (the model fails to load or to encode, the index client or the index write
\* fails, embeddings are disabled), the request succeeds and the row it
\* commits has the scalar fields, categories and moods it has when the
\* embedding step succeeds.
C17_EmbeddingFailureNonFatal ==
    /\ last.op \in {"create_book", "update_book"} => ~last.raised
    /\ next_id <= MaxBooks =>
           \A book_data \in BookCreates, auto_categorize \in BOOLEAN,
              suggestions \in Suggestions, fx \in CreateFaults :
               LET r == create_book(Services, next_id, book_data, auto_categorize,
                                    suggestions, fx)
                   tags == CreateTags(book_data, auto_categorize, suggestions)
               IN /\ ~r.raised
                  /\ r.value = NewBook(book_data, tags.categories, tags.moods, None)
                  /\ DISABLE_EMBEDDINGS # "true" =>
                         r.value = create_book(Services, next_id, book_data,
                                               auto_categorize, suggestions, NoFault).value
    /\ \A book_id \in DOMAIN books, update_data \in BookUpdates, fx \in UpdateFaults :
           LET r == update_book(Services, book_id, books[book_id], update_data, fx)
           IN /\ ~r.raised
              /\ r.value = Patched(books[book_id], update_data)
              /\ DISABLE_EMBEDDINGS # "true" =>
                     r.value = update_book(Services, book_id, books[book_id],
                                           update_data, NoFault).value

\* C17 witness: create_book has just stored a tagged book whose indexing
\* failed, with embeddings enabled
C17_Witness ==
    /\ last.op = "create_book"
    /\ DISABLE_EMBEDDINGS # "true"
    /\ (next_id - 1) \in DOMAIN books \ DOMAIN chroma
    /\ books[next_id - 1].categories # <<>>

\* C18: in a run of sync_from_database a failure of the embedding or of the
\* index write for one item does not end the run: every missing item whose own
\* calls succeed is added, and the count returned is the number of records
\* the run added.
C18_SyncSkipsFailures ==
    /\ (last.op = "sync_from_database" /\ ~last.raised) =>
           last.value = Cardinality(last.added)
    /\ \A fx \in SyncFaults, item_fxs \in [DOMAIN books \ DOMAIN chroma -> ItemFaults] :
           LET fxs == [i \in DOMAIN books |->
                          IF i \in DOMAIN item_fxs THEN item_fxs[i] ELSE NoFault]
               g == get_all_book_ids(Services, fx)
               r == sync_from_database(Services, AllBooks, fx, fxs)
               added == DOMAIN r.sv.chroma \ DOMAIN chroma
           IN ~g.raised =>
                 /\ ~r.raised
                 /\ r.value = Cardinality(added)
                 /\ \A i \in DOMAIN item_fxs : item_fxs[i] = NoFault => i \in added

\* C18 witness: a run of sync_from_database added one missing item and
\* failed on another
C18_Witness ==
    /\ last.op = "sync_from_database"
    /\ ~last.raised
    /\ last.added # {}
    /\ last.missing \ last.added # {}

\* C19: a run of sync_from_database removes no record of the index and
\* leaves the vector, document and metadata of every record that was there
\* when it started as they were.
C19_SyncOnlyAdds ==
    [][last'.op = "sync_from_database" =>
          \A i \in DOMAIN chroma : i \in DOMAIN chroma' /\ chroma'[i] = chroma[i]]_vars

\* C19 witness: a run of sync_from_database added a record to an index that
\* held the record of another item, and that record is not the one derived
\* from the item's current fields
C19_Witness ==
    /\ last.op = "sync_from_database"
    /\ last.added # {}
    /\ \E i \in (DOMAIN chroma \ last.added) \cap DOMAIN books :
           chroma[i] # IndexRecord(books[i], books[i].categories, books[i].moods)

\* The index record derived from the fields of a row of the item store
RecordOf(row) == IndexRecord(row, row.categories, row.moods)

\* C14: once update_book has committed a change of an item's fields, the
\* index does not hold (so no search can return) the record derived from the
\* item's fields as they were before the update, whatever the delete and the
\* re-add of VectorStore.update_book did.
C14_UpdateAtomicity ==
    [][last'.op = "update_book" =>
          \A i \in DOMAIN books \cap DOMAIN books' :
              (RecordOf(books'[i]) # RecordOf(books[i]) /\ i \in DOMAIN chroma') =>
                  chroma'[i] # RecordOf(books[i])]_vars

\* Every request that was started has completed
AllCompleted ==
    /\ \A t \in Threads : pc[t] \in {"idle", "done"}
    /\ \E t \in Threads : pc[t] = "done"

\* C15: when concurrent update_book requests on one item have all committed,
\* whatever the interleaving of their index steps and commits, the index
\* record of the item is the one derived from the item as the later commit
\* left it.
C15_LastWriteWins ==
    \A i \in DOMAIN books :
        (/\ \A t \in Threads : /\ pc[t] = "done"
                               /\ got[t].op = "update_book"
                               /\ got[t].id = i
                               /\ got[t].outcome = "committed")
            => (i \in DOMAIN chroma /\ chroma[i] = RecordOf(books[i]))

\* C16: once concurrent create_book, update_book and delete_book requests
\* have all completed, with no backend call failing, every id of the index
\* is the id of an item of the item store.
C16_NoOrphans ==
    AllCompleted => DOMAIN chroma \subseteq DOMAIN books

\* A list without two equal entries
NoDuplicates(s) == \A i \in 1..Len(s), j \in 1..Len(s) : s[i] = s[j] => i = j

\* C21: the expanded list of categories (of moods) begins with the tags given,
\* in their order, continues with synonyms of the given tags that have an
\* expansion entry, and has no entry twice -- also when the list given
\* repeats a tag or two of its tags share a synonym.
C21_ExpansionDeduplicated ==
    last.op \in {"_expand_categories", "_expand_moods"} =>
        /\ SubSeq(last.value, 1, Len(last.arg)) = last.arg
        /\ \A k \in (Len(last.arg) + 1)..Len(last.value) :
               \E i \in 1..Len(last.arg) :
                   last.value[k] \in
                       Range(IF last.op = "_expand_categories"
                             THEN CategoryExpansions(last.arg[i])
                             ELSE MoodExpansions(last.arg[i]))
        /\ NoDuplicates(last.value)

\* The generation model replied and the content of the reply is read as a
\* JSON object
Parsed(reply) ==
    /\ reply.client
    /\ reply.call = "ok"
    /\ ~ParseContent(reply.content).raised
    /\ reply.content.text.type = "object"

\* C22: categorize_book never raises; without a client, when the call of the
\* generation model fails, and when the reply cannot be read as the expected
\* JSON object, it returns the empty suggestions.
C22_CategorizeNeverRaises ==
    last.op = "categorize_book" =>
        /\ ~last.raised
        /\ ~Parsed(last.arg) => last.value = NoSuggestions

\* C22 witness: categorize_book was given a reply that is not JSON
C22_Witness ==
    /\ last.op = "categorize_book"
    /\ last.arg.client
    /\ last.arg.call = "ok"
    /\ last.arg.content.text.type = "garbage"

\* s is t with some of its entries left out
RECURSIVE IsSubsequence(_, _)
IsSubsequence(s, t) ==
    IF s = <<>> THEN TRUE
    ELSE IF t = <<>> THEN FALSE
    ELSE IF Head(s) = Head(t) THEN IsSubsequence(Tail(s), Tail(t))
    ELSE IsSubsequence(s, Tail(t))

\* C24: whatever the generation model replies, categorize_book returns at
\* most 3 categories and at most 3 moods, each category is one of CATEGORIES
\* and each mood one of MOODS, and they are in the order of the reply.
C24_SuggestionsValid ==
    last.op = "categorize_book" =>
        /\ ~last.raised
        /\ Len(last.value.categories) <= 3
        /\ Len(last.value.moods) <= 3
        /\ Range(last.value.categories) \subseteq Range(CATEGORIES)
        /\ Range(last.value.moods) \subseteq Range(MOODS)
        /\ Parsed(last.arg) =>
               /\ IsSubsequence(last.value.categories,
                                Elements(last.arg.content.text.categories))
               /\ IsSubsequence(last.value.moods, Elements(last.arg.content.text.moods))

\* C24 witness: the reply listed four valid categories and a tag that is not
\* a mood, and categorize_book returned three categories
C24_Witness ==
    /\ last.op = "categorize_book"
    /\ Parsed(last.arg)
    /\ Len(Validated(last.arg.content.text.categories, CATEGORIES)) > 3
    /\ warm \in Range(last.arg.content.text.moods.items)
    /\ Len(last.value.categories) = 3

\* C23: after a create_book or update_book step whose embedding step wrote the
\* item's record to the index, the embedding field of the item's row is not
\* null (so the rows counted as 'books with embeddings' at startup are the
\* items that were embedded).
C23_EmbeddingStored ==
    [][last'.op \in {"create_book", "update_book"} =>
          \A i \in DOMAIN books' \cap DOMAIN chroma' :
              (i \notin DOMAIN chroma \/ chroma'[i] # chroma[i])
                  => books'[i].embedding # None]_vars

\* BookCreate bodies with no tag, with categories only, with moods only, with
\* both, and with a category given twice
TaggedCreates ==
    {[b EXCEPT !.categories = c, !.moods = m] :
        b \in BookCreates, c \in {<<>>, <<non_fiction>>, <<fiction, fiction>>},
        m \in {<<>>, <<dark>>}}

\* C25: create_book takes the suggestions of the categorization only when
\* auto_categorize is set and the request has neither categories nor moods;
\* when the request has a category or a mood, the row stores exactly the
\* tags of the request and the index record is built from them; when the
\* categorization fails (the empty suggestions), the row is created with no
\* tags.
C25_AutoCategorizeOnlyUntagged ==
    next_id <= MaxBooks =>
        \A book_data \in TaggedCreates, auto_categorize \in BOOLEAN,
           suggestions \in Suggestions, fx \in CreateFaults :
            LET r == create_book(Services, next_id, book_data, auto_categorize,
                                 suggestions, fx)
                supplied == book_data.categories # <<>> \/ book_data.moods # <<>>
            IN /\ ~r.raised
               /\ (~auto_categorize \/ supplied) =>
                      /\ r.value.categories = book_data.categories
                      /\ r.value.moods = book_data.moods
                      /\ \A other \in Suggestions :
                             r = create_book(Services, next_id, book_data,
                                             auto_categorize, other, fx)
                      /\ next_id \in DOMAIN r.sv.chroma =>
                             r.sv.chroma[next_id]
                                 = IndexRecord(book_data, book_data.categories,
                                               book_data.moods)
               /\ (auto_categorize /\ ~supplied /\ suggestions = NoSuggestions) =>
                      /\ r.value.categories = <<>>
                      /\ r.value.moods = <<>>

\* C25 witness: create_book has stored and indexed a book whose request had
\* tags, and one book before it was stored with the suggested tags
C25_Witness ==
    /\ last.op = "create_book"
    /\ (next_id - 1) \in DOMAIN books \cap DOMAIN chroma
    /\ books[next_id - 1].categories = <<non_fiction>>
    /\ \E i \in DOMAIN books : books[i].categories = <<fiction>>

\* C26: for every cell of the rating column the imported book gets a rating
\* that is None or an integer of 1..5: an empty cell, a cell that is no number
\* and 0 give None, a value above 5 gives 5 and a negative value gives 1.
C26_RatingNormalised ==
    last.op = "import_rating" =>
        /\ ~last.raised
        /\ last.value \in {{}} \cup {{n} : n \in 1..5}
        /\ last.arg.kind \in {"empty", "blank", "text", "nan"} => last.value = {}
        /\ (last.arg.kind = "number" /\ last.arg.tenths = 0) => last.value = {}
        /\ (last.arg.kind = "inf" \/ (last.arg.kind = "number" /\ last.arg.tenths > 50))
               => last.value = {5}
        /\ (last.arg.kind = "-inf" \/ (last.arg.kind = "number" /\ last.arg.tenths < 0))
               => last.value = {1}

\* C28: in every answer of find_duplicates each group has at least 2 books,
\* no book is in a group twice or in two groups, and total_duplicates is the
\* number of books in the groups minus the number of groups.
C28_DuplicateGroups ==
    last.op = "find_duplicates" =>
        LET groups == last.value.duplicate_groups
        IN /\ \A g \in 1..Len(groups) :
                  /\ Len(groups[g].books) >= 2
                  /\ NoDuplicates(groups[g].books)
                  /\ Range(groups[g].books) \subseteq 1..Len(last.arg)
           /\ \A g, h \in 1..Len(groups) :
                  g # h => Range(groups[g].books) \cap Range(groups[h].books) = {}
           /\ last.value.total_duplicates
                  = Cardinality(UNION {Range(groups[g].books) : g \in 1..Len(groups)})
                        - Len(groups)

\* C28 witness: find_duplicates answered with an ISBN group and a
\* title+author group, and a book of the ISBN group has the title and author
\* of the books of the other group
C28_Witness ==
    /\ last.op = "find_duplicates"
    /\ \E g, h \in 1..Len(last.value.duplicate_groups) :
          /\ last.value.duplicate_groups[g].by = "ISBN"
          /\ last.value.duplicate_groups[h].by = "Title+Author"
          /\ \E i \in Range(last.value.duplicate_groups[g].books) :
                 TitleAuthorKey(last.arg[i]) = last.value.duplicate_groups[h].key
    /\ last.value.total_duplicates = 2

\* C30: for every list of categories and every list of moods given to
\* add_book, the categories and moods a later search returns for the item are
\* the lists that were given.
C30_TagRoundTrip ==
    last.op = "add_book" =>
        /\ last.value.categories = last.arg.categories
        /\ last.value.moods = last.arg.moods

\* C27: in the report of import_csv every data row is either in 'imported' or
\* in 'errors', once (the counts add up to the number of data rows, whatever
\* failed before a row); the store has exactly one new Book for each row in
\* 'imported' and none for a row in 'errors', and the index has no new record
\* beyond those of the imported books.
C27_ImportReport ==
    last.op = "import_csv" =>
        /\ ~last.raised
        /\ last.value.imported_count = Len(last.value.imported)
        /\ last.value.error_count = Len(last.value.errors)
        /\ last.value.imported_count + last.value.error_count = Len(last.arg)
        /\ NoDuplicates(last.value.errors)
        /\ NoDuplicates(last.value.imported)
        /\ Range(last.value.errors) \subseteq 2..(Len(last.arg) + 1)
        /\ DOMAIN books \ last.before.books = Range(last.value.imported)
        /\ DOMAIN chroma \ last.before.chroma \subseteq Range(last.value.imported)

====
